---- MODULE Spec2Model ----
(***************************************************************************)
(* Admission control of the audience-feedback service: the counter-store   *)
(* rate limiter (single-key and dual-key), the usage accountant and the    *)
(* request handlers that sit in front of persistence.                      *)
(*                                                                         *)
(* Every "await redis.*" of the source is one atomic step of a check; the  *)
(* synchronous code between two awaits runs inside the step that follows   *)
(* the earlier await.  Time is in milliseconds, as Date.now() gives it.    *)
(***************************************************************************)
EXTENDS Integers, Sequences, FiniteSets, TLC

(***************************************************************************)
(* Bounds of the model.                                                    *)
(***************************************************************************)
\* concurrent request contexts
MaxProcs == 2
\* number of times the clock advances in one behaviour
MaxTicks == 2
\* the same, in the behaviours whose checks overlap
MaxRaceTicks == 1
\* the store calls of one behaviour that throw
MaxFailures == 1
\* the checks of one behaviour whose checks overlap: single-key, dual-key
MaxRaceChecks == 6
MaxRaceResponseChecks == 4

Procs == 1..MaxProcs

(***************************************************************************)
(* Program constants (src/src/lib/rate-limit.ts).                          *)
(***************************************************************************)
QUESTION_PER_MINUTE == 3
QUESTION_PER_HOUR == 5
QUESTION_PER_DAY == 10
IP_PER_MINUTE == 5
IP_PER_HOUR == 20
IP_PER_DAY == 50
Q_PER_MINUTE == 100
Q_PER_HOUR == 300
Q_PER_DAY == 1000

QUESTION_LIMITS ==
  [PER_MINUTE |-> QUESTION_PER_MINUTE, PER_HOUR |-> QUESTION_PER_HOUR,
   PER_DAY |-> QUESTION_PER_DAY]

RESPONSE_LIMITS ==
  [PER_IP       |-> [PER_MINUTE |-> IP_PER_MINUTE, PER_HOUR |-> IP_PER_HOUR,
                     PER_DAY |-> IP_PER_DAY],
   PER_QUESTION |-> [PER_MINUTE |-> Q_PER_MINUTE, PER_HOUR |-> Q_PER_HOUR,
                     PER_DAY |-> Q_PER_DAY]]

RATE_LIMIT_WINDOW == 60 * 1000
HourMs == 1000 * 60 * 60
DayMs == 24 * HourMs
\* { ex: 24 * 60 * 60 } seconds, in milliseconds
KeyTtlMs == 24 * 60 * 60 * 1000

\* the config the middleware passes for /api/summarize
SUMMARY_MAX == 30
SummarizeConfig ==
  [windowMs |-> 60 * 1000, max |-> SUMMARY_MAX,
   message |-> "Too many summary requests, please try again later"]
\* a call without config: every field undefined (falsy, written 0 and "")
NoConfig == [windowMs |-> 0, max |-> 0, message |-> ""]

\* the endpoint whose traffic a behaviour follows: rateLimitMiddleware called
\* without config, the middleware's call for /api/summarize, and
\* checkResponseRateLimit behind /api/rate-limit
Endpoints == {"default", "summarize", "responses"}
ConfigOf(e) == IF e = "summarize" THEN SummarizeConfig ELSE NoConfig

\* JavaScript's a || b on numbers
OrDefault(a, b) == IF a = 0 THEN b ELSE a
\* and on strings
OrDefaultMessage(a, b) == IF a = "" THEN b ELSE a

(***************************************************************************)
(* Identities and keys.                                                    *)
(***************************************************************************)
\* the identity and the question whose checks most behaviours follow
ClientIps == {"ip1"}
QuestionIds == {"q1"}
\* the identities and questions the store has keys for
AllClientIps == {"ip1", "ip2"}
AllQuestionIds == {"q1", "q2"}

\* variant: every identity counted under the same key
IpKeyShared(clientIp) == "rate_limit:responses:ip:ip1"

\* the template strings of lines 98, 162 and 173
QuestionsKey(clientIp) == "rate_limit:questions:" \o clientIp
IpKey(clientIp) == "rate_limit:responses:ip:" \o clientIp
QuestionKey(questionId) == "rate_limit:responses:question:" \o questionId

SingleKeys == {QuestionsKey(i) : i \in AllClientIps}
IpKeys == {IpKey(i) : i \in AllClientIps}
QuestionKeys == {QuestionKey(q) : q \in AllQuestionIds}
Keys == SingleKeys \cup IpKeys \cup QuestionKeys

(***************************************************************************)
(* RateLimitInfo and the store.                                            *)
(***************************************************************************)
RateLimitInfo(d, h, w, l) ==
  [dailyCount |-> d, hourlyCount |-> h, windowCount |-> w, lastReset |-> l]

\* what redis.get returns for a missing key
Null == RateLimitInfo(-1, -1, -1, 0)

\* a store entry: the value and the time of the set that wrote it
Absent == [val |-> Null, setAt |-> 0]

VARIABLES
  now,        \* Date.now()
  ticks,      \* how often the clock has advanced
  store,      \* the counter store: key -> entry
  endpoint,   \* the endpoint whose traffic this behaviour follows
  pc,         \* where each request context stands
  req,        \* the check a context runs: its arguments and its own now
  info,       \* single-key: what redis.get returned
  currentInfo,          \* single-key: the working copy
  ipInfo,               \* dual-key: what redis.get(ipKey) returned
  currentIpInfo,
  questionInfo,         \* dual-key: what redis.get(questionKey) returned
  currentQuestionInfo,
  pending,    \* dual-key: the sets of Promise.all not yet settled
  failed,     \* a store call of this check threw
  wrote,      \* the keys this check has written
  over,       \* the keys on which this check overlapped another check
  last,       \* the check that returned most recently, and what it returned
  admittedAt, \* the response checks admitted within the last hour: who, when
  admits,     \* per key: checks admitted since the stored lastReset changed
  overlapAdmits, \* per key: those of them that overlapped another check
  peak,       \* per key: most checks ever in flight at once
  failures,   \* the store calls that have thrown
  checks,     \* the checks started, where the behaviour counts them
  upc,        \* where each trackApiUsage call stands
  ucall,      \* its arguments and the day it computed
  usage,      \* the hashes usage:${day}
  usageQuestions, \* the hashes usage:${day}:questions
  usageTtl,   \* the expiry of each usage key
  tracked,    \* per day: what the calls made so far were asked to record
  usageOverlap,   \* two trackApiUsage calls have been in flight together
  uthrew,     \* the trackApiUsage call of a context raised to its caller
  client,     \* the write request in progress and where its handler stands
  checked,    \* a rate-limiter check has admitted the request in progress
  recentResponsesByIP, \* the duplicate filter's memory
  dupLast,    \* the latest isDuplicateResponse call and what it returned
  dupPrev,    \* the call before it
  insertions, \* per bucket: every fingerprint ever inserted, in order
  dupCalls,   \* the isDuplicateResponse calls made
  typed,      \* the text handed to checkForSpam
  spamCheck,  \* what checkForSpam returned for it
  effects,    \* the inserts and billed calls made, each with its "checked"
  result,     \* how the latest write request ended
  requests    \* the write requests started

procVars == <<pc, req, info, currentInfo, ipInfo, currentIpInfo, questionInfo,
              currentQuestionInfo, pending, failed, wrote, over>>
histVars == <<last, admittedAt, admits, overlapAdmits, peak>>
limiterVars == <<checks, store, endpoint, procVars, histVars>>
usageVars == <<upc, ucall, usage, usageQuestions, usageTtl, tracked,
               usageOverlap, uthrew>>
filterVars == <<recentResponsesByIP, dupLast, dupPrev, insertions, dupCalls>>
spamVars == <<typed, spamCheck>>
gateVars == <<client, checked, filterVars, spamVars, effects, result, requests>>

vars == <<now, ticks, failures, limiterVars, usageVars, gateVars>>

NoReq == [mode |-> "none", clientIp |-> "", questionId |-> "", now |-> 0,
          windowMs |-> 0, max |-> 0, message |-> ""]
NoLast == [req |-> NoReq, allowed |-> TRUE, status |-> 0, error |-> "",
           reset |-> 0, failed |-> FALSE, wrote |-> {},
           read |-> <<>>, current |-> <<>>]

\* redis.get: a key whose expiry has passed is gone
Get(key) ==
  IF store[key].val = Null \/ now - store[key].setAt >= KeyTtlMs
  THEN Null ELSE store[key].val

\* variant: the value replaced, the expiry of the key left as it was
SetKeepingExpiry(key, value) == [store EXCEPT ![key].val = value]

\* redis.set(key, value, { ex: 24 * 60 * 60 })
Set(key, value) == [store EXCEPT ![key] = [val |-> value, setAt |-> now]]

\* the keys a check reads and writes
KeysOf(r) ==
  IF r.mode = "single" THEN {QuestionsKey(r.clientIp)}
  ELSE IF r.mode = "dual" THEN {IpKey(r.clientIp), QuestionKey(r.questionId)}
  ELSE {}

InFlight(p) == pc[p] # "idle"

(***************************************************************************)
(* Window accounting: "Reset counters if needed", the same code for the    *)
(* single key and for each of the two keys of a response check.            *)
(***************************************************************************)
\* variant: an hour rollover that clears the day's count as well
ResetCountersHourClearsDay(cur, t, windowMs) ==
  LET hours ==
        IF t - cur.lastReset >= HourMs
        THEN [cur EXCEPT !.dailyCount = 0, !.hourlyCount = 0, !.windowCount = 0]
        ELSE cur
  IN IF t - hours.lastReset > windowMs
     THEN [hours EXCEPT !.windowCount = 0, !.lastReset = t]
     ELSE hours

\* variant: a day rollover that keeps the day's count
ResetCountersDayKeepsDay(cur, t, windowMs) ==
  LET hours ==
        IF t - cur.lastReset >= HourMs
        THEN [cur EXCEPT !.hourlyCount = 0]
        ELSE cur
  IN IF t - hours.lastReset > windowMs
     THEN [hours EXCEPT !.windowCount = 0, !.lastReset = t]
     ELSE hours

ResetCounters(cur, t, windowMs) ==
  LET hours ==
        IF t - cur.lastReset >= 24 * HourMs
        THEN [cur EXCEPT !.dailyCount = 0, !.hourlyCount = 0, !.windowCount = 0]
        ELSE IF t - cur.lastReset >= HourMs
        THEN [cur EXCEPT !.hourlyCount = 0]
        ELSE cur
  IN IF t - hours.lastReset > windowMs
     THEN [hours EXCEPT !.windowCount = 0, !.lastReset = t]
     ELSE hours

\* info || { dailyCount: 0, hourlyCount: 0, windowCount: 0, lastReset: now }
OrFresh(got, t) == IF got = Null THEN RateLimitInfo(0, 0, 0, t) ELSE got

(***************************************************************************)
(* Bookkeeping shared by both limiters (history, not program state).       *)
(***************************************************************************)
Max2(a, b) == IF a >= b THEN a ELSE b

\* the contexts other than p with a check in flight on key k
OthersOn(p, k) == {o \in Procs \ {p} : InFlight(o) /\ k \in KeysOf(req[o])}

\* p starts a check on the keys ks
NoteStart(p, ks) ==
  /\ over' = [o \in Procs |->
                IF o = p THEN {k \in ks : OthersOn(p, k) # {}}
                ELSE IF InFlight(o) THEN over[o] \cup (ks \cap KeysOf(req[o]))
                ELSE over[o]]
  /\ peak' = [k \in Keys |->
                IF k \in ks THEN Max2(peak[k], Cardinality(OthersOn(p, k)) + 1)
                ELSE peak[k]]

\* the admission counts after p's set of key k to value v succeeded
AdmitsAfter(p, k, v, adm) ==
  IF Get(k) = Null \/ Get(k).lastReset # v.lastReset THEN 1 ELSE adm[k] + 1

OverlapAdmitsAfter(p, k, v, adm) ==
  (IF Get(k) = Null \/ Get(k).lastReset # v.lastReset THEN 0 ELSE adm[k])
    + (IF k \in over[p] THEN 1 ELSE 0)

\* the context p is free again
Idle(p) ==
  /\ pc' = [pc EXCEPT ![p] = "idle"]
  /\ req' = [req EXCEPT ![p] = NoReq]
  /\ info' = [info EXCEPT ![p] = Null]
  /\ currentInfo' = [currentInfo EXCEPT ![p] = Null]
  /\ ipInfo' = [ipInfo EXCEPT ![p] = Null]
  /\ currentIpInfo' = [currentIpInfo EXCEPT ![p] = Null]
  /\ questionInfo' = [questionInfo EXCEPT ![p] = Null]
  /\ currentQuestionInfo' = [currentQuestionInfo EXCEPT ![p] = Null]
  /\ pending' = [pending EXCEPT ![p] = {}]
  /\ failed' = [failed EXCEPT ![p] = FALSE]
  /\ wrote' = [wrote EXCEPT ![p] = {}]
  /\ over' = [over EXCEPT ![p] = {}]

\* the admissions of the log that are at most an hour older than t
Recent(log, t) == SelectSeq(log, LAMBDA a : a[2] >= t - HourMs)

\* p's check returns: the caller sees allowed/status/error/reset
Return(p, allowed, status, error, reset, threw, written, read, current) ==
  /\ last' = [req |-> req[p], allowed |-> allowed, status |-> status,
              error |-> error, reset |-> reset, failed |-> threw,
              wrote |-> written, read |-> read, current |-> current]
  /\ admittedAt' =
       IF allowed /\ req[p].mode = "dual"
       THEN Recent(Append(admittedAt, <<req[p].clientIp, req[p].now>>),
                   req[p].now)
       ELSE admittedAt
  /\ Idle(p)

(***************************************************************************)
(* rateLimitMiddleware(request, config)                                    *)
(***************************************************************************)
\* variant: the increment forgotten
KeepCount(cur) == cur

\* currentInfo.windowCount++
IncrementSingle(cur) == [cur EXCEPT !.windowCount = @ + 1]

\* variant: the limit compared with > instead of >=
SingleDeniesAbove(cur, max) == cur.windowCount > max

\* variant: the hourly and daily limits of QUESTION_LIMITS enforced as well
SingleDeniesAnyTier(cur, max) ==
  \/ cur.windowCount >= max
  \/ cur.hourlyCount >= QUESTION_LIMITS.PER_HOUR
  \/ cur.dailyCount >= QUESTION_LIMITS.PER_DAY

\* if (currentInfo.windowCount >= max) return 429
SingleDenies(cur, max) == cur.windowCount >= max

\* lines 95-103: the key, now and the limits in force
StartSingle(p, clientIp, counted) ==
  /\ counted => checks < MaxRaceChecks
  /\ checks' = checks + (IF counted THEN 1 ELSE 0)
  /\ endpoint \in {"default", "summarize"}
  /\ ~InFlight(p)
  /\ \A o \in Procs : o < p => InFlight(o)
  /\ req' = [req EXCEPT ![p] =
               [mode |-> "single", clientIp |-> clientIp, questionId |-> "",
                now |-> now,
                windowMs |-> OrDefault(ConfigOf(endpoint).windowMs, RATE_LIMIT_WINDOW),
                max |-> OrDefault(ConfigOf(endpoint).max, QUESTION_LIMITS.PER_MINUTE),
                message |-> OrDefaultMessage(ConfigOf(endpoint).message,
                              "Rate limit exceeded for question creation")]]
  /\ pc' = [pc EXCEPT ![p] = "s_get"]
  /\ NoteStart(p, {QuestionsKey(clientIp)})
  /\ UNCHANGED <<now, ticks, store, endpoint, info, currentInfo, ipInfo,
                 currentIpInfo, questionInfo, currentQuestionInfo, pending,
                 failed, wrote, last, admittedAt, admits, overlapAdmits, failures>>

\* variant: a failing store rejects the request
FailClosed(mode) ==
  [allowed |-> FALSE, status |-> 429]

\* lines 147-150 and 252-256: catch (error) { console.error(...); admit }
FailOpen(mode) ==
  [allowed |-> TRUE, status |-> 200]

\* the catch block: p's check returns what FailOpen says
Catch(p, read, current) ==
  /\ Return(p, FailOpen(req[p].mode).allowed, FailOpen(req[p].mode).status,
            "", 0, TRUE, wrote[p], read, current)
  /\ failures' = failures + 1

\* variant: the rejection stores the rolled-over counters first
Reject429Persisting(p, got, cur) ==
  /\ Return(p, FALSE, 429, req[p].message,
            cur.lastReset + req[p].windowMs, FALSE, wrote[p], <<got>>, <<cur>>)
  /\ store' = Set(QuestionsKey(req[p].clientIp), cur)
  /\ UNCHANGED failures

\* lines 131-140: return new NextResponse(message, { status: 429, ... })
Reject429(p, got, cur) ==
  /\ Return(p, FALSE, 429, req[p].message,
            cur.lastReset + req[p].windowMs, FALSE, wrote[p], <<got>>, <<cur>>)
  /\ UNCHANGED <<store, failures>>

\* lines 106-142: the read, the rollover and the verdict
SingleGet(p, oks) ==
  /\ pc[p] = "s_get"
  /\ \E ok \in oks :
       IF ok
       THEN LET got == Get(QuestionsKey(req[p].clientIp))
                cur == ResetCounters(OrFresh(got, req[p].now), req[p].now,
                                     req[p].windowMs)
            IN IF SingleDenies(cur, req[p].max)
               THEN Reject429(p, got, cur)
               ELSE /\ info' = [info EXCEPT ![p] = got]
                    /\ currentInfo' = [currentInfo EXCEPT
                                         ![p] = IncrementSingle(cur)]
                    /\ pc' = [pc EXCEPT ![p] = "s_set"]
                    /\ UNCHANGED <<store, req, ipInfo, currentIpInfo,
                                   questionInfo, currentQuestionInfo, pending,
                                   failed, wrote, over, last, admittedAt, failures>>
       ELSE Catch(p, <<>>, <<>>) /\ UNCHANGED store
  /\ UNCHANGED <<now, ticks, checks, endpoint, admits, overlapAdmits, peak>>

\* lines 143-150: the write and the pass-through response
SingleSet(p, oks) ==
  /\ pc[p] = "s_set"
  /\ LET key == QuestionsKey(req[p].clientIp) IN
     \E ok \in oks :
       IF ok
       THEN /\ store' = Set(key, currentInfo[p])
            /\ admits' = [admits EXCEPT
                            ![key] = AdmitsAfter(p, key, currentInfo[p], admits)]
            /\ overlapAdmits' = [overlapAdmits EXCEPT
                 ![key] = OverlapAdmitsAfter(p, key, currentInfo[p], overlapAdmits)]
            /\ Return(p, TRUE, 200, "", 0, FALSE, {key},
                      <<info[p]>>, <<currentInfo[p]>>)
            /\ UNCHANGED failures
       ELSE /\ Catch(p, <<info[p]>>, <<currentInfo[p]>>)
            /\ UNCHANGED <<store, admits, overlapAdmits>>
  /\ UNCHANGED <<now, ticks, checks, endpoint, peak>>

(***************************************************************************)
(* checkResponseRateLimit(questionId, clientIp)                            *)
(***************************************************************************)
\* variant: only the window counted, as rateLimitMiddleware does
IncrementDualWindowOnly(cur) == [cur EXCEPT !.windowCount = @ + 1]

\* lines 236-242: dailyCount++, hourlyCount++, windowCount++
IncrementDual(cur) ==
  [cur EXCEPT !.dailyCount = @ + 1, !.hourlyCount = @ + 1, !.windowCount = @ + 1]

\* variant: only the identity key is consulted
DualVerdictIpOnly(ip, q) ==
  IF ip.dailyCount >= RESPONSE_LIMITS.PER_IP.PER_DAY
  THEN "Daily response limit reached"
  ELSE IF ip.hourlyCount >= RESPONSE_LIMITS.PER_IP.PER_HOUR
  THEN "Hourly response limit reached"
  ELSE IF ip.windowCount >= RESPONSE_LIMITS.PER_IP.PER_MINUTE
  THEN "Too many responses, please wait a minute"
  ELSE ""

\* variant: each key's window checked before its hour and its day
DualVerdictWindowFirst(ip, q) ==
  IF ip.windowCount >= RESPONSE_LIMITS.PER_IP.PER_MINUTE
  THEN "Too many responses, please wait a minute"
  ELSE IF ip.hourlyCount >= RESPONSE_LIMITS.PER_IP.PER_HOUR
  THEN "Hourly response limit reached"
  ELSE IF ip.dailyCount >= RESPONSE_LIMITS.PER_IP.PER_DAY
  THEN "Daily response limit reached"
  ELSE IF q.windowCount >= RESPONSE_LIMITS.PER_QUESTION.PER_MINUTE
  THEN "Too many responses to this question, please wait a minute"
  ELSE IF q.hourlyCount >= RESPONSE_LIMITS.PER_QUESTION.PER_HOUR
  THEN "This question has reached its hourly response limit"
  ELSE IF q.dailyCount >= RESPONSE_LIMITS.PER_QUESTION.PER_DAY
  THEN "This question has reached its daily response limit"
  ELSE ""

\* lines 213-233: the error of the first limit reached, "" when none is
DualVerdict(ip, q) ==
  IF ip.dailyCount >= RESPONSE_LIMITS.PER_IP.PER_DAY
  THEN "Daily response limit reached"
  ELSE IF ip.hourlyCount >= RESPONSE_LIMITS.PER_IP.PER_HOUR
  THEN "Hourly response limit reached"
  ELSE IF ip.windowCount >= RESPONSE_LIMITS.PER_IP.PER_MINUTE
  THEN "Too many responses, please wait a minute"
  ELSE IF q.dailyCount >= RESPONSE_LIMITS.PER_QUESTION.PER_DAY
  THEN "This question has reached its daily response limit"
  ELSE IF q.hourlyCount >= RESPONSE_LIMITS.PER_QUESTION.PER_HOUR
  THEN "This question has reached its hourly response limit"
  ELSE IF q.windowCount >= RESPONSE_LIMITS.PER_QUESTION.PER_MINUTE
  THEN "Too many responses to this question, please wait a minute"
  ELSE ""

\* line 158
StartDual(p, questionId, clientIp, counted) ==
  /\ counted => checks < MaxRaceResponseChecks
  /\ checks' = checks + (IF counted THEN 1 ELSE 0)
  /\ endpoint = "responses"
  /\ ~InFlight(p)
  /\ \A o \in Procs : o < p => InFlight(o)
  /\ req' = [req EXCEPT ![p] =
               [mode |-> "dual", clientIp |-> clientIp,
                questionId |-> questionId, now |-> now,
                windowMs |-> RATE_LIMIT_WINDOW, max |-> 0, message |-> ""]]
  /\ pc' = [pc EXCEPT ![p] = "d_getIp"]
  /\ NoteStart(p, {IpKey(clientIp), QuestionKey(questionId)})
  /\ UNCHANGED <<now, ticks, store, endpoint, info, currentInfo, ipInfo,
                 currentIpInfo, questionInfo, currentQuestionInfo, pending,
                 failed, wrote, last, admittedAt, admits, overlapAdmits, failures>>

\* lines 214-233: return { allowed: false, error }
RejectResponse(p, got, ip, q, error) ==
  /\ Return(p, FALSE, 429, error, 0, FALSE, wrote[p], <<ipInfo[p], got>>,
            <<ip, q>>)
  /\ UNCHANGED <<store, failures>>

\* lines 162-170
DualGetIp(p, oks) ==
  /\ pc[p] = "d_getIp"
  /\ \E ok \in oks :
       IF ok
       THEN LET got == Get(IpKey(req[p].clientIp))
            IN /\ ipInfo' = [ipInfo EXCEPT ![p] = got]
               /\ currentIpInfo' = [currentIpInfo EXCEPT
                                      ![p] = OrFresh(got, req[p].now)]
               /\ pc' = [pc EXCEPT ![p] = "d_getQuestion"]
               /\ UNCHANGED <<req, info, currentInfo, questionInfo,
                              currentQuestionInfo, pending, failed, wrote,
                              over, last, admittedAt, failures>>
       ELSE Catch(p, <<>>, <<>>)
  /\ UNCHANGED <<now, ticks, checks, store, endpoint, admits, overlapAdmits, peak>>

\* lines 173-242
DualGetQuestion(p, oks) ==
  /\ pc[p] = "d_getQuestion"
  /\ \E ok \in oks :
       IF ok
       THEN LET got == Get(QuestionKey(req[p].questionId))
                ip == ResetCounters(currentIpInfo[p], req[p].now,
                                    RATE_LIMIT_WINDOW)
                q == ResetCounters(OrFresh(got, req[p].now), req[p].now,
                                   RATE_LIMIT_WINDOW)
                error == DualVerdict(ip, q)
            IN IF error # ""
               THEN RejectResponse(p, got, ip, q, error)
               ELSE /\ questionInfo' = [questionInfo EXCEPT ![p] = got]
                    /\ currentIpInfo' = [currentIpInfo EXCEPT
                                           ![p] = IncrementDual(ip)]
                    /\ currentQuestionInfo' = [currentQuestionInfo EXCEPT
                                                 ![p] = IncrementDual(q)]
                    /\ pending' = [pending EXCEPT
                         ![p] = {IpKey(req[p].clientIp),
                                 QuestionKey(req[p].questionId)}]
                    /\ pc' = [pc EXCEPT ![p] = "d_set"]
                    /\ UNCHANGED <<store, req, info, currentInfo, ipInfo,
                                   failed, wrote, over, last, admittedAt, failures>>
       ELSE Catch(p, <<>>, <<>>) /\ UNCHANGED store
  /\ UNCHANGED <<now, ticks, checks, endpoint, admits, overlapAdmits, peak>>

\* lines 245-256: Promise.all of the two sets; the check returns allowed
\* whether they succeed or throw.  The two sets settle in either order; the
\* check is taken to return when both have settled.
DualSet(p, key, oks) ==
  /\ pc[p] = "d_set"
  /\ key \in pending[p]
  /\ LET value == IF key = IpKey(req[p].clientIp) THEN currentIpInfo[p]
                  ELSE currentQuestionInfo[p]
         settled == pending[p] = {key}
         read == <<ipInfo[p], questionInfo[p]>>
         current == <<currentIpInfo[p], currentQuestionInfo[p]>>
     IN \E ok \in oks :
          /\ IF ok
             THEN /\ store' = Set(key, value)
                  /\ admits' = [admits EXCEPT
                                  ![key] = AdmitsAfter(p, key, value, admits)]
                  /\ overlapAdmits' = [overlapAdmits EXCEPT
                       ![key] = OverlapAdmitsAfter(p, key, value, overlapAdmits)]
             ELSE UNCHANGED <<store, admits, overlapAdmits>>
          /\ IF settled /\ ok /\ ~failed[p]
             THEN /\ Return(p, TRUE, 200, "", 0, FALSE, wrote[p] \cup {key},
                            read, current)
                  /\ UNCHANGED failures
             ELSE IF settled
             THEN /\ Return(p, FailOpen("dual").allowed, FailOpen("dual").status,
                            "", 0, TRUE,
                            IF ok THEN wrote[p] \cup {key} ELSE wrote[p],
                            read, current)
                  /\ failures' = failures + (IF ok THEN 0 ELSE 1)
             ELSE /\ pending' = [pending EXCEPT ![p] = @ \ {key}]
                  /\ failed' = [failed EXCEPT ![p] = @ \/ ~ok]
                  /\ wrote' = [wrote EXCEPT
                                 ![p] = IF ok THEN @ \cup {key} ELSE @]
                  /\ failures' = failures + (IF ok THEN 0 ELSE 1)
                  /\ UNCHANGED <<pc, req, info, currentInfo, ipInfo,
                                 currentIpInfo, questionInfo,
                                 currentQuestionInfo, over, last, admittedAt>>
  /\ UNCHANGED <<now, ticks, checks, endpoint, peak>>

(***************************************************************************)
(* trackApiUsage(questionId, tokensUsed)                                   *)
(***************************************************************************)
\* the bounds of the usage behaviours
MaxTracked == 3
MaxUsageTicks == 1
TokenAmounts == {50, 100}
UsageQuestions == {"q1", "q2"}

\* now.toISOString().split('T')[0], as the number of the day
DayOf(t) == t \div DayMs
Days == 0..MaxUsageTicks

\* 90 * 24 * 60 * 60: redis.expire takes seconds; the expiry instants of
\* the usage keys are kept in seconds
UsageTtl == 90 * 24 * 60 * 60
NoTtl == 0 - 1
UsageKey(day) == <<"usage", day>>
UsageQuestionsKey(day) == <<"usage:questions", day>>
UsageKeys == {UsageKey(d) : d \in Days} \cup {UsageQuestionsKey(d) : d \in Days}

NoCall == [questionId |-> "", tokensUsed |-> 0, day |-> 0]
Tracking(p) == upc[p] # "idle"

\* variant: the field overwritten instead of incremented
HSet(hash, field, amount) == [hash EXCEPT ![field] = amount]

\* redis.hincrby: one atomic step of the store
HIncrBy(hash, field, amount) == [hash EXCEPT ![field] = @ + amount]

\* lines 53-61: the call computes its day and reaches the first await
TrackApiUsage(p, questionId, tokensUsed) ==
  /\ ~Tracking(p)
  /\ \A o \in Procs : o < p => Tracking(o)
  /\ upc' = [upc EXCEPT ![p] = "tokens"]
  /\ ucall' = [ucall EXCEPT ![p] = [questionId |-> questionId,
                                    tokensUsed |-> tokensUsed,
                                    day |-> DayOf(now)]]
  /\ tracked' = [tracked EXCEPT ![DayOf(now)] =
       [total_tokens |-> @.total_tokens + tokensUsed,
        total_requests |-> @.total_requests + 1,
        questions |-> [@.questions EXCEPT ![questionId] = @ + 1]]]
  /\ usageOverlap' = (usageOverlap \/ \E o \in Procs \ {p} : Tracking(o))
  /\ uthrew' = [uthrew EXCEPT ![p] = FALSE]
  /\ UNCHANGED <<usage, usageQuestions, usageTtl, failures>>

\* variant: the error thrown on to the caller
TrackRethrow(p) ==
  /\ upc' = [upc EXCEPT ![p] = "idle"]
  /\ ucall' = [ucall EXCEPT ![p] = NoCall]
  /\ failures' = failures + 1
  /\ uthrew' = [uthrew EXCEPT ![p] = TRUE]
  /\ UNCHANGED <<usage, usageQuestions, usageTtl>>

\* lines 72-74: catch (error) { console.error(...) }; the call returns
TrackCatch(p) ==
  /\ upc' = [upc EXCEPT ![p] = "idle"]
  /\ ucall' = [ucall EXCEPT ![p] = NoCall]
  /\ failures' = failures + 1
  /\ UNCHANGED <<usage, usageQuestions, usageTtl, uthrew>>

\* line 63: await redis.hincrby(`usage:${day}`, 'total_tokens', tokensUsed)
TrackTokens(p, oks) ==
  /\ upc[p] = "tokens"
  /\ \E ok \in oks :
       IF ok
       THEN /\ usage' = [usage EXCEPT ![ucall[p].day] =
                           HIncrBy(@, "total_tokens", ucall[p].tokensUsed)]
            /\ upc' = [upc EXCEPT ![p] = "requests"]
            /\ UNCHANGED <<ucall, usageQuestions, usageTtl, failures, uthrew>>
       ELSE TrackCatch(p)
  /\ UNCHANGED <<tracked, usageOverlap>>

\* line 64: await redis.hincrby(`usage:${day}`, 'total_requests', 1)
TrackRequests(p, oks) ==
  /\ upc[p] = "requests"
  /\ \E ok \in oks :
       IF ok
       THEN /\ usage' = [usage EXCEPT ![ucall[p].day] =
                           HIncrBy(@, "total_requests", 1)]
            /\ upc' = [upc EXCEPT ![p] = "question"]
            /\ UNCHANGED <<ucall, usageQuestions, usageTtl, failures, uthrew>>
       ELSE TrackCatch(p)
  /\ UNCHANGED <<tracked, usageOverlap>>

\* line 65: await redis.hincrby(`usage:${day}:questions`, questionId, 1)
TrackQuestion(p, oks) ==
  /\ upc[p] = "question"
  /\ \E ok \in oks :
       IF ok
       THEN /\ usageQuestions' = [usageQuestions EXCEPT ![ucall[p].day] =
                                    HIncrBy(@, ucall[p].questionId, 1)]
            /\ upc' = [upc EXCEPT ![p] = "expire"]
            /\ UNCHANGED <<ucall, usage, usageTtl, failures, uthrew>>
       ELSE TrackCatch(p)
  /\ UNCHANGED <<tracked, usageOverlap>>

\* line 70: await redis.expire(`usage:${day}`, 90 * 24 * 60 * 60)
TrackExpire(p, oks) ==
  /\ upc[p] = "expire"
  /\ \E ok \in oks :
       IF ok
       THEN /\ usageTtl' = [usageTtl EXCEPT
                              ![UsageKey(ucall[p].day)] = now \div 1000 + UsageTtl]
            /\ upc' = [upc EXCEPT ![p] = "expireQuestions"]
            /\ UNCHANGED <<ucall, usage, usageQuestions, failures, uthrew>>
       ELSE TrackCatch(p)
  /\ UNCHANGED <<tracked, usageOverlap>>

\* line 71: await redis.expire(`usage:${day}:questions`, 90 * 24 * 60 * 60)
TrackExpireQuestions(p, oks) ==
  /\ upc[p] = "expireQuestions"
  /\ \E ok \in oks :
       IF ok
       THEN /\ usageTtl' = [usageTtl EXCEPT
                 ![UsageQuestionsKey(ucall[p].day)] = now \div 1000 + UsageTtl]
            /\ upc' = [upc EXCEPT ![p] = "idle"]
            /\ ucall' = [ucall EXCEPT ![p] = NoCall]
            /\ UNCHANGED <<usage, usageQuestions, failures, uthrew>>
       ELSE TrackCatch(p)
  /\ UNCHANGED <<tracked, usageOverlap>>

\* the calls made so far
TrackedCalls ==
  LET Sum[d \in -1..MaxUsageTicks] ==
        IF d < 0 THEN 0 ELSE tracked[d].total_requests + Sum[d - 1]
  IN Sum[MaxUsageTicks]

InitUsage ==
  /\ upc = [p \in Procs |-> "idle"]
  /\ ucall = [p \in Procs |-> NoCall]
  /\ usage = [d \in Days |-> [total_tokens |-> 0, total_requests |-> 0]]
  /\ usageQuestions = [d \in Days |-> [q \in UsageQuestions |-> 0]]
  /\ usageTtl = [k \in UsageKeys |-> NoTtl]
  /\ tracked = [d \in Days |->
                 [total_tokens |-> 0, total_requests |-> 0,
                  questions |-> [q \in UsageQuestions |-> 0]]]
  /\ usageOverlap = FALSE
  /\ uthrew = [p \in Procs |-> FALSE]

(***************************************************************************)
(* Texts.  A text is a sequence of one-character strings over a small      *)
(* alphabet; String.prototype.toLowerCase and trim are computed character  *)
(* by character.                                                           *)
(***************************************************************************)
\* the white space and line terminators that \s matches and trim removes
WhiteSpace == {" ", "\t", "\n", "\r"}
\* the line terminators, which the . of a regular expression does not match
LineTerminators == {"\n", "\r"}

Lower(c) ==
  CASE c = "A" -> "a"
    [] c = "B" -> "b"
    [] c = "H" -> "h"
    [] c = "X" -> "x"
    [] OTHER -> c

\* content.toLowerCase()
ToLowerCase(s) == [i \in DOMAIN s |-> Lower(s[i])]

MinOf(S) == CHOOSE x \in S : \A y \in S : x <= y
MaxOf(S) == CHOOSE x \in S : \A y \in S : x >= y

\* response.trim()
Trim(s) ==
  LET inked == {i \in DOMAIN s : s[i] \notin WhiteSpace}
  IN IF inked = {} THEN <<>> ELSE SubSeq(s, MinOf(inked), MaxOf(inked))

\* piece repeated n times
RECURSIVE Repeat(_, _)
Repeat(piece, n) == IF n <= 0 THEN <<>> ELSE piece \o Repeat(piece, n - 1)

(***************************************************************************)
(* isDuplicateResponse(questionId, response, ip)                           *)
(*                                                                         *)
(* recentResponsesByIP[ip][questionId] is the Set of the bucket in its     *)
(* insertion order, which is the order Array.from lists it in.  A bucket   *)
(* that the Map does not hold yet is the empty sequence: the function      *)
(* creates it empty before it looks anything up.                           *)
(***************************************************************************)
\* the bounds of the duplicate filter's behaviours
MaxFilterCalls == 3

\* if (responseSet.size > 100) ... entries.slice(-100)
RECENT_RESPONSES == 100

FilterQuestions == {"q1", "q2"}
\* the ip that /api/ip reports, and the fallback of line 114
SubmitterIps == {"ip1", "anonymous"}

Digits == <<"0", "1", "2", "3", "4", "5", "6", "7", "8", "9">>
\* the n-th fingerprint left by earlier submissions: "x001", "x002", ...
Filler(n) ==
  <<"x", Digits[((n \div 100) % 10) + 1], Digits[((n \div 10) % 10) + 1],
    Digits[(n % 10) + 1]>>
Fillers(n) == [i \in 1..n |-> Filler(i)]

\* responseSet.has(x)
Has(responseSet, x) == \E i \in DOMAIN responseSet : responseSet[i] = x

\* variant: the text compared as typed
AsTyped(response) == response

\* response.toLowerCase().trim()
Normalized(response) == Trim(ToLowerCase(response))

\* variant: the oldest entries kept
SliceFirst(entries) ==
  IF Len(entries) > RECENT_RESPONSES
  THEN SubSeq(entries, 1, RECENT_RESPONSES)
  ELSE entries

\* entries.slice(-100)
SliceLast(entries) ==
  IF Len(entries) > RECENT_RESPONSES
  THEN SubSeq(entries, Len(entries) - RECENT_RESPONSES + 1, Len(entries))
  ELSE entries

\* lines 91-117: what the call returns and what it leaves in the bucket
isDuplicateResponse(seen, questionId, response, ip) ==
  LET responseSet == seen[ip][questionId]
      normalizedResponse == Normalized(response)
      added == Append(responseSet, normalizedResponse)
  IN IF Has(responseSet, normalizedResponse)
     THEN [returns |-> TRUE, seen |-> seen]
     ELSE [returns |-> FALSE,
           seen |-> [seen EXCEPT ![ip][questionId] =
                       IF Len(added) > RECENT_RESPONSES
                       THEN SliceLast(added) ELSE added]]

NoDup == [questionId |-> "", response |-> <<>>, ip |-> "", before |-> <<>>,
          returns |-> FALSE]

\* a call of isDuplicateResponse, with its record
CallIsDuplicateResponse(questionId, response, ip) ==
  LET call == isDuplicateResponse(recentResponsesByIP, questionId, response, ip)
  IN /\ recentResponsesByIP' = call.seen
     /\ dupPrev' = dupLast
     /\ dupLast' = [questionId |-> questionId, response |-> response,
                    ip |-> ip,
                    before |-> recentResponsesByIP[ip][questionId],
                    returns |-> call.returns]
     /\ insertions' =
          IF call.returns THEN insertions
          ELSE [insertions EXCEPT ![ip][questionId] =
                  Append(@, Normalized(response))]
     /\ dupCalls' = dupCalls + 1

\* the memory of a page that has been open for a while: the bucket of ip1
\* and q1 as earlier submissions left it
InitFilter(fills) ==
  /\ \E n \in fills :
       recentResponsesByIP =
         [i \in SubmitterIps |-> [q \in FilterQuestions |->
            IF i = "ip1" /\ q = "q1" THEN Fillers(n) ELSE <<>>]]
  /\ insertions = recentResponsesByIP
  /\ dupLast = NoDup
  /\ dupPrev = NoDup
  /\ dupCalls = 0

(***************************************************************************)
(* checkForSpam(content)                                                   *)
(***************************************************************************)
Http == <<"h", "t", "t", "p", ":", "/", "/">>
Https == <<"h", "t", "t", "p", "s", ":", "/", "/">>

\* pattern occurs in content at position i
MatchAt(content, i, pattern) ==
  /\ i + Len(pattern) - 1 <= Len(content)
  /\ SubSeq(content, i, i + Len(pattern) - 1) = pattern

\* /(.)\1{9,}/.test(content): a character other than a line terminator,
\* followed by nine more of itself
RepeatedChars(content) ==
  \E i \in DOMAIN content :
    /\ i + 9 <= Len(content)
    /\ content[i] \notin LineTerminators
    /\ \A j \in 1..9 : content[i + j] = content[i]

\* (content.match(/https?:\/\//g) || []).length
UrlCount(content) ==
  Cardinality({i \in DOMAIN content :
                 MatchAt(content, i, Http) \/ MatchAt(content, i, Https)})

\* s.split(/\s+/): the pieces between the runs of white space; a run at
\* either end of s leaves an empty piece there, and "" splits into [""]
RECURSIVE Split(_)
Split(s) ==
  LET blanks == {i \in DOMAIN s : s[i] \in WhiteSpace}
  IN IF blanks = {} THEN <<s>>
     ELSE LET first == MinOf(blanks)
              inked == {i \in DOMAIN s : i > first /\ s[i] \notin WhiteSpace}
              rest == IF inked = {} THEN <<>>
                      ELSE SubSeq(s, MinOf(inked), Len(s))
          IN <<SubSeq(s, 1, first - 1)>> \o Split(rest)

\* wordFreq.get(word)
WordFreq(words, word) == Cardinality({i \in DOMAIN words : words[i] = word})

\* Math.max(...Array.from(wordFreq.values()))
MaxWordRepetition(words) ==
  MaxOf({WordFreq(words, words[i]) : i \in DOMAIN words})

NotSpam == [isSpam |-> FALSE, reason |-> ""]

\* lines 60-86
checkForSpam(content) ==
  LET words == Split(ToLowerCase(content))
  IN IF RepeatedChars(content)
     THEN [isSpam |-> TRUE, reason |-> "Too many repeated characters"]
     ELSE IF UrlCount(content) > 3
     THEN [isSpam |-> TRUE, reason |-> "Too many URLs"]
     ELSE IF MaxWordRepetition(words) > 5 /\ Len(words) > 10
     THEN [isSpam |-> TRUE, reason |-> "Excessive word repetition"]
     ELSE NotSpam

\* the texts checked: up to MaxSegments runs of a piece, and a tail
MaxSegments == 2
SpamPieces ==
  {<<"a">>, <<"a", " ">>, <<"A", " ">>, <<" ", "b">>, <<"b", " ">>,
   <<"\n">>, Http \o <<"x", " ">>, Https \o <<" ">>}
\* around the thresholds of the three checks: 3, 5 and 9
SpamCounts == {0, 1, 3, 4, 5, 6, 9, 10}
SpamTails == {<<>>, <<"b">>, <<" ">>}

RECURSIVE Runs(_)
Runs(n) ==
  IF n = 0 THEN {<<>>}
  ELSE {Repeat(piece, count) \o rest :
          piece \in SpamPieces, count \in SpamCounts, rest \in Runs(n - 1)}

Contents == {runs \o tail : runs \in Runs(MaxSegments), tail \in SpamTails}

NoSpamCheck == [isSpam |-> FALSE, reason |-> "not checked"]

\* the call
CheckForSpam ==
  /\ spamCheck = NoSpamCheck
  /\ spamCheck' = checkForSpam(typed)
  /\ UNCHANGED typed

InitSpam(contents) ==
  /\ typed \in contents
  /\ spamCheck = NoSpamCheck

(***************************************************************************)
(* The write operations: handleGenerateLink (create-question),             *)
(* handleSubmit (submit-response), and the summary request through         *)
(* middleware, POST and generateSummary.  One request is followed at a     *)
(* time.                                                                   *)
(***************************************************************************)
MAX_RETRIES == 3
INITIAL_RETRY_DELAY == 1000
\* the bound of the write requests followed
MaxRequests == 3
\* the responses typed: "y", "Y " and a run of ten a
Texts == {<<"y">>, <<"Y", " ">>, Repeat(<<"a">>, 10)}
\* the tokens a completion consumes, where write requests are followed
GateTokenAmounts == {50}
\* no trackApiUsage call made
NoTokens == 0 - 1

\* what an attempt of generateSummary meets: a summary that parses, a
\* completion whose text JSON.parse rejects, or a create call that throws
Attempts == {"ok", "unparsable", "throws"}

\* no summary returned: metrics.retryCount not set
NoMetrics == 0 - 1

\* calls: the anthropic.messages.create calls made; delays: the waits before
\* the retries, in ms; metricsRetryCount: metrics.retryCount of the summary
\* returned
NoRequest == [op |-> "none", stage |-> "idle", text |-> <<>>, ip |-> "",
              retryCount |-> 0, limiter |-> 0, completions |-> 0,
              consumed |-> 0, recorded |-> NoTokens, trackFailed |-> FALSE,
              calls |-> 0, delays |-> <<>>, metricsRetryCount |-> NoMetrics]
NoResult == [request |-> NoRequest, status |-> 0, error |-> "", reset |-> 0]
Handling == client.op # "none"

NewRequest(op, stage, text) ==
  [NoRequest EXCEPT !.op = op, !.stage = stage, !.text = text]

\* the request is over: an error shown, a page pushed or a response returned
Done(request, status, error, reset) ==
  /\ client' = NoRequest
  /\ result' = [request |-> request, status |-> status, error |-> error,
                reset |-> reset]

\* a record reaches persistence, or a billed call is made; a response is
\* persisted with its text, for the identity that submitted it
Effect(op) ==
  effects \cup {[op |-> op, checked |-> checked, text |-> client.text,
                 ip |-> client.ip]}

\* ResponseForm.tsx lines 107-117: up to the fetch of /api/ip
HandleSubmit(text) ==
  /\ ~Handling
  /\ requests < MaxRequests
  /\ requests' = requests + 1
  /\ client' = NewRequest("submit-response", "ip", text)
  /\ checked' = FALSE
  /\ UNCHANGED <<filterVars, effects, result>>

\* lines 114-129: the ip that /api/ip reports, 'anonymous' when it fails
FetchIp(ipOk) ==
  /\ client.op = "submit-response" /\ client.stage = "ip"
  /\ client' = [client EXCEPT !.stage = "checks",
                              !.ip = IF ipOk THEN "ip1" ELSE "anonymous"]
  /\ UNCHANGED <<requests, checked, filterVars, effects, result>>

\* variant: the duplicate filter consulted before the spam classifier
DuplicateThenSpam(text, ip) ==
  /\ CallIsDuplicateResponse("q1", text, ip)
  /\ IF isDuplicateResponse(recentResponsesByIP, "q1", text, ip).returns
     THEN Done(client, 0, "You have already submitted this response", 0)
     ELSE IF checkForSpam(text).isSpam
     THEN Done(client, 0, checkForSpam(text).reason, 0)
     ELSE client' = [client EXCEPT !.stage = "insert"] /\ UNCHANGED result

\* lines 131-140: checkForSpam, then isDuplicateResponse; each throws
SpamThenDuplicate(text, ip) ==
  IF checkForSpam(text).isSpam
  THEN /\ Done(client, 0, checkForSpam(text).reason, 0)
       /\ UNCHANGED filterVars
  ELSE /\ CallIsDuplicateResponse("q1", text, ip)
       /\ IF isDuplicateResponse(recentResponsesByIP, "q1", text, ip).returns
          THEN Done(client, 0, "You have already submitted this response", 0)
          ELSE client' = [client EXCEPT !.stage = "insert"] /\ UNCHANGED result

SubmitChecks ==
  /\ client.op = "submit-response" /\ client.stage = "checks"
  /\ SpamThenDuplicate(client.text, client.ip)
  /\ UNCHANGED <<requests, checked, effects>>

\* lines 143-163: supabase.from('responses').insert
SubmitInsert(ok) ==
  /\ client.op = "submit-response" /\ client.stage = "insert"
  /\ effects' = IF ok THEN Effect("submit-response") ELSE effects
  /\ IF ok THEN Done(client, 0, "", 0)
     ELSE Done(client, 0, "Failed to submit response. Please try again.", 0)
  /\ UNCHANGED <<requests, checked, filterVars>>

\* QuestionInput.tsx lines 117-134: checkForSpam, sanitizeInput, the
\* encryption awaited
HandleGenerateLink(isSpam) ==
  /\ ~Handling
  /\ requests < MaxRequests
  /\ requests' = requests + 1
  /\ IF isSpam
     THEN Done(NewRequest("create-question", "insert", <<>>), 0,
               "Question rejected", 0)
     ELSE /\ client' = NewRequest("create-question", "insert", <<>>)
          /\ UNCHANGED result
  /\ checked' = FALSE
  /\ UNCHANGED <<filterVars, effects>>

\* lines 136-158: supabase.from('questions').insert
GenerateLinkInsert(ok) ==
  /\ client.op = "create-question" /\ client.stage = "insert"
  /\ effects' = IF ok THEN Effect("create-question") ELSE effects
  /\ IF ok THEN Done(client, 0, "", 0)
     ELSE Done(client, 0, "Failed to create question", 0)
  /\ UNCHANGED <<requests, checked, filterVars>>

\* middleware lines 23-25: a request for /api/summarize enters the limiter
RequestSummary ==
  /\ ~Handling
  /\ requests < MaxRequests
  /\ requests' = requests + 1
  /\ client' = NewRequest("request-summary", "limiter", <<>>)
  /\ checked' = FALSE
  /\ UNCHANGED <<filterVars, effects, result>>

\* variant: the limiter's response ignored
NeverShortCircuits(status) == FALSE

\* middleware line 30: if (response.status === 429) return response
ShortCircuits(status) == status = 429

\* middleware lines 30-34, once p's check has returned: a 429 goes back to
\* the client, any other response lets the request through to the route
AfterLimiter(p) ==
  /\ client.stage = "limiter"
  /\ IF pc'[p] # "idle"
     THEN UNCHANGED <<client, checked, result>>
     ELSE IF ShortCircuits(last'.status)
     THEN /\ Done([client EXCEPT !.limiter = last'.status], last'.status,
                  last'.error, last'.reset)
          /\ UNCHANGED checked
     ELSE /\ client' = [client EXCEPT !.stage = "route",
                                      !.limiter = last'.status]
          /\ checked' = last'.allowed
          /\ UNCHANGED result
  /\ UNCHANGED <<requests, filterVars, effects>>

\* route.ts lines 126-160: the body validated
SummarizePost(valid) ==
  /\ client.stage = "route"
  /\ IF valid
     THEN client' = [client EXCEPT !.stage = "generate"] /\ UNCHANGED result
     ELSE Done(client, 400, "At least 3 responses are required", 0)
  /\ UNCHANGED <<requests, checked, filterVars, effects>>

\* Math.pow(b, n) for a natural n
RECURSIVE Pow(_, _)
Pow(b, n) == IF n = 0 THEN 1 ELSE b * Pow(b, n - 1)

\* INITIAL_RETRY_DELAY * Math.pow(2, retryCount)
RetryDelay(retryCount) == INITIAL_RETRY_DELAY * Pow(2, retryCount)

\* variant: one retry more
MayRetryOnceMore(retryCount) == retryCount <= MAX_RETRIES

\* if (retryCount < MAX_RETRIES)
MayRetry(retryCount) == retryCount < MAX_RETRIES

\* route.ts lines 38-114 and 162-166: one attempt of generateSummary.  A
\* completion consumes its tokens whether or not its text parses; an attempt
\* that throws or does not parse is retried after its delay while
\* retryCount < MAX_RETRIES, and the error goes to POST's catch after that;
\* an attempt that parses returns metrics with its retryCount and
\* metrics.tokens, the tokens of its own message, which go to trackApiUsage
GenerateSummary(p, attempt, tokens) ==
  /\ client.stage = "generate"
  /\ effects' = Effect("request-summary")
  /\ LET called == [client EXCEPT
                      !.calls = @ + 1,
                      !.completions = @ + (IF attempt = "throws" THEN 0 ELSE 1),
                      !.consumed = @ + (IF attempt = "throws" THEN 0 ELSE tokens)]
     IN IF attempt = "ok"
        THEN /\ TrackApiUsage(p, "q1", tokens)
             /\ client' = [called EXCEPT !.stage = "track",
                                         !.metricsRetryCount = client.retryCount,
                                         !.recorded = tokens]
             /\ UNCHANGED result
        ELSE /\ IF MayRetry(client.retryCount)
                THEN /\ client' = [called EXCEPT
                                     !.delays = Append(@, RetryDelay(client.retryCount)),
                                     !.retryCount = @ + 1]
                     /\ UNCHANGED result
                ELSE Done(called, 500, "Failed to generate summary", 0)
             /\ UNCHANGED <<usageVars, failures>>
  /\ UNCHANGED <<requests, checked, filterVars>>

\* route.ts lines 164-203, once p's trackApiUsage has returned: the summary
\* goes back, or POST's catch answers 500 if the call raised
AfterTrack(p) ==
  /\ client.stage = "track"
  /\ LET tracking == [client EXCEPT
                        !.trackFailed = @ \/ failures' > failures]
     IN IF upc'[p] # "idle"
        THEN client' = tracking /\ UNCHANGED result
        ELSE IF uthrew'[p]
        THEN Done(tracking, 500, "Failed to generate summary", 0)
        ELSE Done(tracking, 200, "", 0)
  /\ UNCHANGED <<requests, checked, filterVars, effects>>

InitGate ==
  /\ requests = 0
  /\ client = NoRequest
  /\ result = NoResult
  /\ checked = FALSE
  /\ effects = {}

(***************************************************************************)
(* The clock.  It jumps between the instants at which the code's           *)
(* comparisons against a lastReset of 0 or 1 change their answer: within   *)
(* the window, the window boundary, the hour, the day, and the expiry of a *)
(* key.                                                                    *)
(***************************************************************************)
Instants ==
  {0, 1, RATE_LIMIT_WINDOW, RATE_LIMIT_WINDOW + 1, HourMs - 1, HourMs,
   DayMs - 1, DayMs, DayMs + 1}

\* where checks overlap: the first instant past the window that starts at 0
RaceInstants == {RATE_LIMIT_WINDOW + 1}

Tick(t, bound) ==
  /\ ticks < bound
  /\ t > now
  /\ now' = t
  /\ ticks' = ticks + 1
  /\ UNCHANGED <<failures, limiterVars>>

(***************************************************************************)
(* Initial states.  The counter store outlives the program, so a           *)
(* behaviour may find the response keys as earlier traffic left them: each *)
(* seed is a record that admissions before time 0 leave behind (every      *)
(* stored record was written by an admission, so each count is >= 1), with *)
(* the time of the set that wrote it.                                      *)
(***************************************************************************)
InitProcs ==
  /\ pc = [p \in Procs |-> "idle"]
  /\ req = [p \in Procs |-> NoReq]
  /\ info = [p \in Procs |-> Null]
  /\ currentInfo = [p \in Procs |-> Null]
  /\ ipInfo = [p \in Procs |-> Null]
  /\ currentIpInfo = [p \in Procs |-> Null]
  /\ questionInfo = [p \in Procs |-> Null]
  /\ currentQuestionInfo = [p \in Procs |-> Null]
  /\ pending = [p \in Procs |-> {}]
  /\ failed = [p \in Procs |-> FALSE]
  /\ wrote = [p \in Procs |-> {}]
  /\ over = [p \in Procs |-> {}]
  /\ last = NoLast
  /\ admittedAt = <<>>
  /\ peak = [k \in Keys |-> 0]
  /\ failures = 0

Seed(d, h, w, l, at) == [val |-> RateLimitInfo(d, h, w, l), setAt |-> at]

\* <<the identity key, the question key>>
Seeds ==
  {<<Absent, Absent>>,
   \* the identity one short of its hourly, of its daily limit
   <<Seed(IP_PER_HOUR - 1, IP_PER_HOUR - 1, 1, 0, 0), Absent>>,
   <<Seed(IP_PER_DAY - 1, 1, 1, 0, 0), Absent>>,
   \* the question one short of its per-minute, hourly, daily limit
   <<Absent, Seed(Q_PER_MINUTE - 1, Q_PER_MINUTE - 1, Q_PER_MINUTE - 1, 0, 0)>>,
   <<Absent, Seed(Q_PER_HOUR - 1, Q_PER_HOUR - 1, 1, 0, 0)>>,
   <<Absent, Seed(Q_PER_DAY - 1, 1, 1, 0, 0)>>,
   \* the identity at its per-minute limit through other questions, this
   \* question last answered a day ago
   <<Seed(IP_PER_MINUTE, IP_PER_MINUTE, IP_PER_MINUTE, 0, 0),
     Seed(2, 2, 2, 0 - DayMs, 1 - DayMs)>>,
   \* both over a limit
   <<Seed(IP_PER_DAY, 1, 1, 0, 0), Seed(Q_PER_HOUR, Q_PER_HOUR, 1, 0, 0)>>,
   \* the identity at its daily and at its per-minute limit
   <<Seed(IP_PER_DAY, IP_PER_MINUTE, IP_PER_MINUTE, 0, 0), Absent>>,
   \* the identity at its daily limit a day ago and silent since (the key
   \* has expired), the question at its daily limit through other identities
   <<Seed(IP_PER_DAY, 1, 1, 0 - DayMs, 0 - DayMs), Seed(Q_PER_DAY, 1, 1, 0, 0)>>}

InitLimiter(endpoints, single, seeds) ==
  /\ now = 0
  /\ ticks = 0
  /\ checks = 0
  /\ endpoint \in endpoints
  /\ \E seed \in seeds :
       /\ endpoint # "responses" => seed = <<Absent, Absent>>
       /\ store = [k \in Keys |->
                    IF k = IpKey("ip1") THEN seed[1]
                    ELSE IF k = QuestionKey("q1") THEN seed[2]
                    ELSE IF k = QuestionsKey("ip1") THEN single
                    ELSE Absent]
  /\ admits = [k \in Keys |-> Max2(store[k].val.windowCount, 0)]
  /\ overlapAdmits = [k \in Keys |-> 0]
  /\ InitProcs

\* the parts of the state a behaviour does not follow
NoFilter == InitFilter({0})
NoSpam == InitSpam({<<>>})

Init ==
  /\ InitLimiter(Endpoints, Absent, Seeds)
  /\ InitUsage
  /\ InitGate
  /\ NoFilter
  /\ NoSpam

NoneInFlight == \A p \in Procs : ~InFlight(p)

\* a store call succeeds or throws; at most MaxFailures calls of a behaviour
\* throw
StoreUpOrDown == IF failures < MaxFailures THEN {TRUE, FALSE} ELSE {TRUE}
StoreUp == {TRUE}

(***************************************************************************)
(* Spec: the checks of one endpoint, one after the other, on a store that  *)
(* may fail.                                                               *)
(***************************************************************************)
Next ==
  \/ \E p \in Procs, clientIp \in ClientIps :
       /\ NoneInFlight
       /\ StartSingle(p, clientIp, FALSE)
       /\ UNCHANGED <<usageVars, gateVars>>
  \/ \E p \in Procs :
       SingleGet(p, StoreUpOrDown) /\ UNCHANGED <<usageVars, gateVars>>
  \/ \E p \in Procs :
       SingleSet(p, StoreUpOrDown) /\ UNCHANGED <<usageVars, gateVars>>
  \/ \E p \in Procs, questionId \in QuestionIds, clientIp \in ClientIps :
       /\ NoneInFlight
       /\ StartDual(p, questionId, clientIp, FALSE)
       /\ UNCHANGED <<usageVars, gateVars>>
  \/ \E p \in Procs :
       DualGetIp(p, StoreUpOrDown) /\ UNCHANGED <<usageVars, gateVars>>
  \/ \E p \in Procs :
       DualGetQuestion(p, StoreUpOrDown) /\ UNCHANGED <<usageVars, gateVars>>
  \/ \E p \in Procs, key \in Keys :
       DualSet(p, key, StoreUpOrDown) /\ UNCHANGED <<usageVars, gateVars>>
  \/ \E t \in Instants :
       /\ NoneInFlight
       /\ Tick(t, MaxTicks)
       /\ UNCHANGED <<usageVars, gateVars>>

Spec == Init /\ [][Next]_vars

(***************************************************************************)
(* SpecRace: checks of several request contexts, interleaved at every      *)
(* await, on a healthy store that starts empty.                            *)
(***************************************************************************)
InitRace ==
  /\ InitLimiter({"default", "responses"}, Absent, {<<Absent, Absent>>})
  /\ InitUsage
  /\ InitGate
  /\ NoFilter
  /\ NoSpam

NextRace ==
  \/ \E p \in Procs, clientIp \in ClientIps :
       StartSingle(p, clientIp, TRUE) /\ UNCHANGED <<usageVars, gateVars>>
  \/ \E p \in Procs :
       SingleGet(p, StoreUp) /\ UNCHANGED <<usageVars, gateVars>>
  \/ \E p \in Procs :
       SingleSet(p, StoreUp) /\ UNCHANGED <<usageVars, gateVars>>
  \/ \E p \in Procs, questionId \in QuestionIds, clientIp \in ClientIps :
       /\ StartDual(p, questionId, clientIp, TRUE)
       /\ UNCHANGED <<usageVars, gateVars>>
  \/ \E p \in Procs :
       DualGetIp(p, StoreUp) /\ UNCHANGED <<usageVars, gateVars>>
  \/ \E p \in Procs :
       DualGetQuestion(p, StoreUp) /\ UNCHANGED <<usageVars, gateVars>>
  \/ \E p \in Procs, key \in Keys :
       DualSet(p, key, StoreUp) /\ UNCHANGED <<usageVars, gateVars>>
  \/ \E t \in RaceInstants :
       Tick(t, MaxRaceTicks) /\ UNCHANGED <<usageVars, gateVars>>

SpecRace == InitRace /\ [][NextRace]_vars

(***************************************************************************)
(* SpecUsage: trackApiUsage calls of several request contexts, interleaved *)
(* at every await, across a change of day.                                 *)
(***************************************************************************)
InitUsageOnly ==
  /\ InitLimiter({"summarize"}, Absent, {<<Absent, Absent>>})
  /\ InitUsage
  /\ InitGate
  /\ NoFilter
  /\ NoSpam

NextUsage ==
  \/ \E p \in Procs, questionId \in UsageQuestions, tokensUsed \in TokenAmounts :
       /\ TrackedCalls < MaxTracked
       /\ TrackApiUsage(p, questionId, tokensUsed)
       /\ UNCHANGED <<now, ticks, limiterVars, gateVars>>
  \/ \E p \in Procs :
       /\ TrackTokens(p, StoreUpOrDown)
       /\ UNCHANGED <<now, ticks, limiterVars, gateVars>>
  \/ \E p \in Procs :
       /\ TrackRequests(p, StoreUpOrDown)
       /\ UNCHANGED <<now, ticks, limiterVars, gateVars>>
  \/ \E p \in Procs :
       /\ TrackQuestion(p, StoreUpOrDown)
       /\ UNCHANGED <<now, ticks, limiterVars, gateVars>>
  \/ \E p \in Procs :
       /\ TrackExpire(p, StoreUpOrDown)
       /\ UNCHANGED <<now, ticks, limiterVars, gateVars>>
  \/ \E p \in Procs :
       /\ TrackExpireQuestions(p, StoreUpOrDown)
       /\ UNCHANGED <<now, ticks, limiterVars, gateVars>>
  \/ \E t \in {DayMs} :
       Tick(t, MaxUsageTicks) /\ UNCHANGED <<usageVars, gateVars>>

SpecUsage == InitUsageOnly /\ [][NextUsage]_vars

(***************************************************************************)
(* SpecGate: write requests, one after the other: questions created,       *)
(* responses submitted, summaries requested through the middleware.        *)
(***************************************************************************)
NextGate ==
  \/ \E text \in Texts :
       /\ HandleSubmit(text)
       /\ UNCHANGED <<now, ticks, failures, limiterVars, usageVars, spamVars>>
  \/ \E ipOk \in BOOLEAN :
       /\ FetchIp(ipOk)
       /\ UNCHANGED <<now, ticks, failures, limiterVars, usageVars, spamVars>>
  \/ /\ SubmitChecks
     /\ UNCHANGED <<now, ticks, failures, limiterVars, usageVars, spamVars>>
  \/ \E ok \in BOOLEAN :
       /\ SubmitInsert(ok)
       /\ UNCHANGED <<now, ticks, failures, limiterVars, usageVars, spamVars>>
  \/ \E isSpam \in BOOLEAN :
       /\ HandleGenerateLink(isSpam)
       /\ UNCHANGED <<now, ticks, failures, limiterVars, usageVars, spamVars>>
  \/ \E ok \in BOOLEAN :
       /\ GenerateLinkInsert(ok)
       /\ UNCHANGED <<now, ticks, failures, limiterVars, usageVars, spamVars>>
  \/ \E p \in Procs, clientIp \in ClientIps :
       /\ RequestSummary
       /\ StartSingle(p, clientIp, FALSE)
       /\ UNCHANGED <<usageVars, spamVars>>
  \/ \E p \in Procs :
       SingleGet(p, StoreUpOrDown) /\ AfterLimiter(p) /\ UNCHANGED <<usageVars, spamVars>>
  \/ \E p \in Procs :
       SingleSet(p, StoreUpOrDown) /\ AfterLimiter(p) /\ UNCHANGED <<usageVars, spamVars>>
  \/ \E valid \in BOOLEAN :
       /\ SummarizePost(valid)
       /\ UNCHANGED <<now, ticks, failures, limiterVars, usageVars, spamVars>>
  \/ \E p \in Procs, attempt \in Attempts, tokens \in GateTokenAmounts :
       /\ GenerateSummary(p, attempt, tokens)
       /\ UNCHANGED <<now, ticks, limiterVars, spamVars>>
  \/ \E p \in Procs :
       /\ TrackTokens(p, StoreUpOrDown) /\ AfterTrack(p)
       /\ UNCHANGED <<now, ticks, limiterVars, spamVars>>
  \/ \E p \in Procs :
       /\ TrackRequests(p, StoreUpOrDown) /\ AfterTrack(p)
       /\ UNCHANGED <<now, ticks, limiterVars, spamVars>>
  \/ \E p \in Procs :
       /\ TrackQuestion(p, StoreUpOrDown) /\ AfterTrack(p)
       /\ UNCHANGED <<now, ticks, limiterVars, spamVars>>
  \/ \E p \in Procs :
       /\ TrackExpire(p, StoreUpOrDown) /\ AfterTrack(p)
       /\ UNCHANGED <<now, ticks, limiterVars, spamVars>>
  \/ \E p \in Procs :
       /\ TrackExpireQuestions(p, StoreUpOrDown) /\ AfterTrack(p)
       /\ UNCHANGED <<now, ticks, limiterVars, spamVars>>

\* the summaries already requested in the current minute leave room for two
InitGateOnly ==
  /\ InitLimiter({"summarize"}, Seed(0, 0, SUMMARY_MAX - 2, 0, 0),
                 {<<Absent, Absent>>})
  /\ InitUsage
  /\ InitGate
  /\ NoFilter
  /\ NoSpam

SpecGate == InitGateOnly /\ [][NextGate]_vars

\* an attempt of generateSummary ends: the awaited create call settles and
\* the timer of the retry delay fires
AttemptEnds ==
  \E p \in Procs, attempt \in Attempts, tokens \in GateTokenAmounts :
    /\ GenerateSummary(p, attempt, tokens)
    /\ UNCHANGED <<now, ticks, limiterVars, spamVars>>

\* FairGate: SpecGate where no attempt of generateSummary hangs
FairGate == SpecGate /\ WF_vars(AttemptEnds)

(***************************************************************************)
(* SpecSingle: rateLimitMiddleware called without config and with the      *)
(* middleware's config, one check after the other.  The store outlives a   *)
(* deployment and the function takes what it reads as a RateLimitInfo      *)
(* (line 106): the record under the key may carry hourly and daily counts  *)
(* that this version of the function never writes.                         *)
(***************************************************************************)
SingleSeeds ==
  {Absent,
   Seed(QUESTION_PER_DAY, QUESTION_PER_HOUR, 1, 0, 0),
   Seed(SUMMARY_MAX, SUMMARY_MAX, SUMMARY_MAX - 1, 0, 0)}

InitSingle ==
  /\ \E single \in SingleSeeds :
       InitLimiter({"default", "summarize"}, single, {<<Absent, Absent>>})
  /\ InitUsage
  /\ InitGate
  /\ NoFilter
  /\ NoSpam

NextSingle ==
  \/ \E p \in Procs, clientIp \in ClientIps :
       /\ NoneInFlight
       /\ StartSingle(p, clientIp, FALSE)
       /\ UNCHANGED <<usageVars, gateVars>>
  \/ \E p \in Procs :
       SingleGet(p, StoreUpOrDown) /\ UNCHANGED <<usageVars, gateVars>>
  \/ \E p \in Procs :
       SingleSet(p, StoreUpOrDown) /\ UNCHANGED <<usageVars, gateVars>>
  \/ \E t \in Instants :
       /\ NoneInFlight
       /\ Tick(t, MaxTicks)
       /\ UNCHANGED <<usageVars, gateVars>>

SpecSingle == InitSingle /\ [][NextSingle]_vars

(***************************************************************************)
(* SpecHours: the response checks of one identity on one question, one     *)
(* after the other on a healthy store that starts empty, with minutes,     *)
(* half hours and hours passing between them.                              *)
(***************************************************************************)
MaxHourTicks == 3
HourSteps == {RATE_LIMIT_WINDOW + 1, HourMs \div 2, HourMs, DayMs}

InitHours ==
  /\ InitLimiter({"responses"}, Absent, {<<Absent, Absent>>})
  /\ InitUsage
  /\ InitGate
  /\ NoFilter
  /\ NoSpam

NextHours ==
  \/ \E p \in Procs, questionId \in QuestionIds, clientIp \in ClientIps :
       /\ NoneInFlight
       /\ StartDual(p, questionId, clientIp, FALSE)
       /\ UNCHANGED <<usageVars, gateVars>>
  \/ \E p \in Procs :
       DualGetIp(p, StoreUp) /\ UNCHANGED <<usageVars, gateVars>>
  \/ \E p \in Procs :
       DualGetQuestion(p, StoreUp) /\ UNCHANGED <<usageVars, gateVars>>
  \/ \E p \in Procs, key \in Keys :
       DualSet(p, key, StoreUp) /\ UNCHANGED <<usageVars, gateVars>>
  \/ \E step \in HourSteps :
       /\ NoneInFlight
       /\ Tick(now + step, MaxHourTicks)
       /\ UNCHANGED <<usageVars, gateVars>>

SpecHours == InitHours /\ [][NextHours]_vars

(***************************************************************************)
(* SpecScopes: checks of both limiters for two identities and two          *)
(* questions, one after the other on a healthy store, where the first      *)
(* identity and the first question may have used up their limits.          *)
(***************************************************************************)
ScopeSeeds ==
  {<<Absent, Absent>>,
   <<Seed(IP_PER_DAY, 1, 1, 0, 0), Seed(Q_PER_HOUR, Q_PER_HOUR, 1, 0, 0)>>}

\* the traffic followed moves to another endpoint
Route(e) ==
  /\ NoneInFlight
  /\ e # endpoint
  /\ endpoint' = e
  /\ UNCHANGED <<now, ticks, failures, checks, store, procVars, histVars>>

InitScopes ==
  /\ \E single \in {Absent, Seed(0, 0, SUMMARY_MAX, 0, 0)} :
       InitLimiter({"responses"}, single, ScopeSeeds)
  /\ InitUsage
  /\ InitGate
  /\ NoFilter
  /\ NoSpam

NextScopes ==
  \/ \E p \in Procs, clientIp \in AllClientIps :
       /\ NoneInFlight
       /\ StartSingle(p, clientIp, TRUE)
       /\ UNCHANGED <<usageVars, gateVars>>
  \/ \E p \in Procs :
       SingleGet(p, StoreUp) /\ UNCHANGED <<usageVars, gateVars>>
  \/ \E p \in Procs :
       SingleSet(p, StoreUp) /\ UNCHANGED <<usageVars, gateVars>>
  \/ \E p \in Procs, questionId \in AllQuestionIds, clientIp \in AllClientIps :
       /\ NoneInFlight
       /\ StartDual(p, questionId, clientIp, TRUE)
       /\ UNCHANGED <<usageVars, gateVars>>
  \/ \E p \in Procs :
       DualGetIp(p, StoreUp) /\ UNCHANGED <<usageVars, gateVars>>
  \/ \E p \in Procs :
       DualGetQuestion(p, StoreUp) /\ UNCHANGED <<usageVars, gateVars>>
  \/ \E p \in Procs, key \in Keys :
       DualSet(p, key, StoreUp) /\ UNCHANGED <<usageVars, gateVars>>
  \/ \E e \in Endpoints :
       Route(e) /\ UNCHANGED <<usageVars, gateVars>>

SpecScopes == InitScopes /\ [][NextScopes]_vars

(***************************************************************************)
(* SpecFilter: isDuplicateResponse called again and again on the memory of *)
(* a page whose bucket for ip1 and q1 is empty, one short of full, or      *)
(* full.                                                                   *)
(***************************************************************************)
\* what is submitted: new texts that normalize to "a" and to "b", and the
\* oldest, the second and the newest of the fingerprints already there
Responses ==
  {<<"a">>, <<" ", "A", "\n">>, <<"B">>, Filler(1), Filler(2),
   Filler(RECENT_RESPONSES)}

BucketFills == {0, RECENT_RESPONSES - 1, RECENT_RESPONSES}

InitFilterOnly ==
  /\ InitLimiter({"responses"}, Absent, {<<Absent, Absent>>})
  /\ InitUsage
  /\ InitGate
  /\ InitFilter(BucketFills)
  /\ NoSpam

NextFilter ==
  \E questionId \in FilterQuestions, response \in Responses,
     ip \in SubmitterIps :
    /\ dupCalls < MaxFilterCalls
    /\ CallIsDuplicateResponse(questionId, response, ip)
    /\ UNCHANGED <<now, ticks, failures, limiterVars, usageVars, client,
                   checked, spamVars, effects, result, requests>>

SpecFilter == InitFilterOnly /\ [][NextFilter]_vars

(***************************************************************************)
(* SpecSpam: checkForSpam applied to each of the texts of Contents.        *)
(***************************************************************************)
InitSpamOnly ==
  /\ InitLimiter({"responses"}, Absent, {<<Absent, Absent>>})
  /\ InitUsage
  /\ InitGate
  /\ NoFilter
  /\ InitSpam(Contents)

NextSpam ==
  /\ CheckForSpam
  /\ UNCHANGED <<now, ticks, failures, limiterVars, usageVars, client,
                 checked, filterVars, effects, result, requests>>

SpecSpam == InitSpamOnly /\ [][NextSpam]_vars

(***************************************************************************)
(* Properties of the rate limiter.                                         *)
(***************************************************************************)
\* the per-minute maximum in force on key k
PerMinuteOf(k) ==
  IF k \in SingleKeys
  THEN OrDefault(ConfigOf(endpoint).max, QUESTION_LIMITS.PER_MINUTE)
  ELSE IF k \in IpKeys
  THEN RESPONSE_LIMITS.PER_IP.PER_MINUTE
  ELSE RESPONSE_LIMITS.PER_QUESTION.PER_MINUTE

\* the i-th key of the check r
KeyAt(r, i) ==
  IF r.mode = "single" THEN QuestionsKey(r.clientIp)
  ELSE IF i = 1 THEN IpKey(r.clientIp) ELSE QuestionKey(r.questionId)

\* what the last check found under its i-th key, after rollover processing
Rolled(i) ==
  ResetCounters(OrFresh(last.read[i], last.req.now), last.req.now,
                last.req.windowMs)

UnderAll(c, lim) ==
  /\ c.dailyCount < lim.PER_DAY
  /\ c.hourlyCount < lim.PER_HOUR
  /\ c.windowCount < lim.PER_MINUTE

\* the last check returned without a store failure, having read its keys
Healthy == last.req.mode # "none" /\ ~last.failed

\* C1: without overlap and without store failure no key admits more than its
\* per-minute maximum between two changes of its lastReset, and a check that
\* runs while now - lastReset <= windowMs is admitted only if the key's
\* windowCount was below the maximum.
C1_PerMinuteCap ==
  failures = 0 =>
    /\ \A k \in Keys : admits[k] <= PerMinuteOf(k)
    /\ (Healthy /\ last.allowed) =>
         \A i \in DOMAIN last.read :
           (last.read[i] # Null
              /\ last.req.now - last.read[i].lastReset <= last.req.windowMs)
             => last.read[i].windowCount < PerMinuteOf(KeyAt(last.req, i))

\* a check denied at the very end of a window that has admitted its maximum
C1_Witness ==
  /\ failures = 0
  /\ Healthy /\ ~last.allowed
  /\ \E k \in KeysOf(last.req) :
       /\ admits[k] = PerMinuteOf(k)
       /\ store[k].val.windowCount = PerMinuteOf(k)
       /\ last.req.now - store[k].val.lastReset = RATE_LIMIT_WINDOW

\* C2: with a healthy store a response check is allowed exactly when, after
\* rollover, the identity key is under its three PER_IP maxima and the
\* question key under its three PER_QUESTION maxima.
C2_BothKeysAdmit ==
  (Healthy /\ last.req.mode = "dual") =>
    /\ last.allowed <=> (/\ UnderAll(Rolled(1), RESPONSE_LIMITS.PER_IP)
                         /\ UnderAll(Rolled(2), RESPONSE_LIMITS.PER_QUESTION))
    /\ last.allowed <=> last.error = ""

\* a response denied by the question key alone
C2_Witness ==
  /\ Healthy /\ last.req.mode = "dual"
  /\ ~last.allowed
  /\ UnderAll(Rolled(1), RESPONSE_LIMITS.PER_IP)
  /\ ~UnderAll(Rolled(2), RESPONSE_LIMITS.PER_QUESTION)

\* C3: a check during which a store call threw admits the request.
C3_FailOpen ==
  last.failed => (last.allowed /\ last.status # 429)

\* a check that failed while one of its keys stood at its per-minute maximum
C3_Witness ==
  /\ last.failed
  /\ \E k \in KeysOf(last.req) :
       /\ Get(k) # Null
       /\ Get(k).windowCount >= PerMinuteOf(k)
       /\ last.req.now - Get(k).lastReset <= RATE_LIMIT_WINDOW

\* C4: the step in which a check returns a denial leaves the store as it
\* was, and the check wrote nothing before it.
C4_DenialWritesNothing ==
  [][\A p \in Procs :
       (pc[p] # "idle" /\ pc'[p] = "idle" /\ ~last'.allowed)
         => (store' = store /\ wrote[p] = {})]_vars

\* a denied check that had computed a rollover, which the store does not hold
C4_Witness ==
  /\ Healthy /\ ~last.allowed
  /\ \E i \in DOMAIN last.read :
       /\ last.read[i] # Null
       /\ last.current[i] # last.read[i]
       /\ store[KeyAt(last.req, i)].val = last.read[i]

\* C5 (as stated): a key admits at most its maximum plus the largest number
\* of checks ever in flight on it at once.
C5_OvershootByPeak ==
  \A k \in Keys : admits[k] <= PerMinuteOf(k) + peak[k]

\* C5 (amended): a key admits at most its maximum plus the number of
\* admitted checks that overlapped another check on that key.
C5_OvershootByOverlaps ==
  \A k \in Keys : admits[k] <= PerMinuteOf(k) + overlapAdmits[k]

\* a key that has admitted more than its maximum
C5_Witness ==
  \E k \in Keys : admits[k] > PerMinuteOf(k) /\ overlapAdmits[k] > 0

\* C6: every insert of a question or of a response, and every call of the
\* summarization service, is made for a request that a rate-limiter check
\* has admitted before.
C6_WritesGated ==
  \A e \in effects : e.checked

\* C7: an admitted check stores, for each of its keys, the post-rollover
\* counters with windowCount, hourlyCount and dailyCount each one higher.
C7_AllThreeIncremented ==
  (NoneInFlight /\ Healthy /\ last.allowed) =>
    \A i \in DOMAIN last.read :
      /\ last.current[i] = IncrementDual(Rolled(i))
      /\ store[KeyAt(last.req, i)].val = last.current[i]

\* C8: a response check with 1 hour <= now - lastReset < 24 hours on a key
\* evaluates that key with hourlyCount 0 and the stored dailyCount, and when
\* admitted stores hourlyCount = 1 and dailyCount = stored dailyCount + 1.
C8_HourRollover ==
  (NoneInFlight /\ Healthy /\ last.req.mode = "dual") =>
    \A i \in DOMAIN last.read :
      (last.read[i] # Null
         /\ last.req.now - last.read[i].lastReset >= HourMs
         /\ last.req.now - last.read[i].lastReset < DayMs)
        => IF last.allowed
           THEN /\ last.current[i].hourlyCount = 1
                /\ last.current[i].dailyCount = last.read[i].dailyCount + 1
                /\ store[KeyAt(last.req, i)].val = last.current[i]
           ELSE /\ last.current[i].hourlyCount = 0
                /\ last.current[i].dailyCount = last.read[i].dailyCount
                /\ last.error # (IF i = 1 THEN "Hourly response limit reached"
                                 ELSE "This question has reached its hourly response limit")

\* a response admitted an hour after its identity had used up the hour
C8_Witness ==
  /\ NoneInFlight /\ Healthy /\ last.req.mode = "dual" /\ last.allowed
  /\ last.read[1] # Null
  /\ last.read[1].hourlyCount >= RESPONSE_LIMITS.PER_IP.PER_HOUR
  /\ last.req.now - last.read[1].lastReset >= HourMs
  /\ last.req.now - last.read[1].lastReset < DayMs
  /\ store[IpKey(last.req.clientIp)].val.hourlyCount = 1

\* a key of the last check whose stored lastReset is a day old or more
DayOld(i) ==
  /\ last.read[i] # Null
  /\ last.req.now - last.read[i].lastReset >= DayMs

\* what an admitted check stores under a key after a day rollover
AfterDayRollover(i) ==
  IF last.req.mode = "single"
  THEN RateLimitInfo(0, 0, 1, last.req.now)
  ELSE RateLimitInfo(1, 1, 1, last.req.now)

\* C9 (as stated): a check that finds a key with now - lastReset >= 24 hours
\* is admitted and stores every incremented counter as 1 and lastReset = now.
C9_DayRolloverAdmits ==
  (NoneInFlight /\ Healthy) =>
    \A i \in DOMAIN last.read :
      DayOld(i) => /\ last.allowed
                   /\ store[KeyAt(last.req, i)].val = AfterDayRollover(i)

\* C9 (amended): such a key is evaluated with all three counters 0 and
\* lastReset = now, so it does not deny; a single-key check is admitted, a
\* response check is admitted exactly when its other key admits; an admitted
\* check stores every incremented counter as 1 and lastReset = now.
C9_DayRolloverResets ==
  (NoneInFlight /\ Healthy) =>
    \A i \in DOMAIN last.read :
      DayOld(i) =>
        /\ Rolled(i) = RateLimitInfo(0, 0, 0, last.req.now)
        /\ last.req.mode = "single" => last.allowed
        /\ last.req.mode = "dual" =>
             (last.allowed <=>
                UnderAll(Rolled(3 - i),
                         IF i = 1 THEN RESPONSE_LIMITS.PER_QUESTION
                         ELSE RESPONSE_LIMITS.PER_IP))
        /\ last.allowed =>
             store[KeyAt(last.req, i)].val = AfterDayRollover(i)
        /\ ~last.allowed => last.current[i] = Rolled(i)

\* a check admitted on a key that had counted a full day before
C9_Witness ==
  /\ NoneInFlight /\ Healthy /\ last.allowed
  /\ \E i \in DOMAIN last.read :
       /\ DayOld(i)
       /\ last.read[i].windowCount >= 2
       /\ store[KeyAt(last.req, i)].val = AfterDayRollover(i)

(***************************************************************************)
(* Properties of the usage accountant.                                     *)
(***************************************************************************)
\* C10: when no trackApiUsage call is in flight and no store call has
\* failed, each day's bucket holds the sum of the amounts, the number of the
\* calls and the number of the calls per question made on that day, however
\* the calls were interleaved.
C10_UsageTotals ==
  (failures = 0 /\ \A p \in Procs : ~Tracking(p)) =>
    \A d \in Days :
      /\ usage[d].total_tokens = tracked[d].total_tokens
      /\ usage[d].total_requests = tracked[d].total_requests
      /\ usageQuestions[d] = tracked[d].questions

\* two overlapping calls for q1, of 100 and of 50 tokens, both finished
C10_Witness ==
  /\ failures = 0 /\ \A p \in Procs : ~Tracking(p)
  /\ usageOverlap
  /\ usage[0].total_tokens = 150
  /\ usage[0].total_requests = 2
  /\ usageQuestions[0]["q1"] = 2

(***************************************************************************)
(* Properties of the duplicate filter.                                     *)
(***************************************************************************)
\* the bucket the latest call worked on, as it is now
BucketOf(call) == recentResponsesByIP[call.ip][call.questionId]

\* the lower-cased, trimmed text of a call
FingerprintOf(call) == Trim(ToLowerCase(call.response))

\* the last n entries of a sequence
LastN(s, n) == IF Len(s) > n THEN SubSeq(s, Len(s) - n + 1, Len(s)) ELSE s

\* C11: isDuplicateResponse returns true exactly when the lower-cased,
\* trimmed text is in the bucket of (ip, questionId), and then leaves the
\* bucket as it was; otherwise it inserts that text and returns false.  Of
\* two consecutive calls for the same bucket whose texts normalize to the
\* same string, the second returns true, the first having returned false on
\* a bucket that did not hold the string.
C11_DuplicateExactly ==
  dupCalls > 0 =>
    /\ dupLast.returns <=> Has(dupLast.before, FingerprintOf(dupLast))
    /\ dupLast.returns => BucketOf(dupLast) = dupLast.before
    /\ ~dupLast.returns =>
         /\ Has(BucketOf(dupLast), FingerprintOf(dupLast))
         /\ BucketOf(dupLast)[Len(BucketOf(dupLast))] = FingerprintOf(dupLast)
    /\ (/\ dupCalls > 1
        /\ dupPrev.ip = dupLast.ip /\ dupPrev.questionId = dupLast.questionId
        /\ FingerprintOf(dupPrev) = FingerprintOf(dupLast))
         => /\ dupLast.returns
            /\ ~Has(dupPrev.before, FingerprintOf(dupPrev)) => ~dupPrev.returns

\* "a" and then " A\n" submitted to a full bucket: new, then duplicate
C11_Witness ==
  /\ dupCalls > 1
  /\ dupPrev.ip = dupLast.ip /\ dupPrev.questionId = dupLast.questionId
  /\ dupPrev.response = <<"a">> /\ dupLast.response = <<" ", "A", "\n">>
  /\ Len(dupPrev.before) = RECENT_RESPONSES
  /\ ~dupPrev.returns /\ dupLast.returns

\* C12: every bucket holds at most 100 fingerprints, namely the 100 most
\* recently inserted ones of all that were ever inserted into it, and a text
\* whose fingerprint was inserted and has since been dropped is reported as
\* not duplicate.
C12_MostRecentHundred ==
  /\ \A ip \in SubmitterIps, q \in FilterQuestions :
       /\ Len(recentResponsesByIP[ip][q]) <= RECENT_RESPONSES
       /\ recentResponsesByIP[ip][q] = LastN(insertions[ip][q], RECENT_RESPONSES)
  /\ dupCalls > 0 =>
       LET log == insertions[dupLast.ip][dupLast.questionId]
           logBefore == IF dupLast.returns THEN log
                        ELSE SubSeq(log, 1, Len(log) - 1)
       IN (/\ Has(logBefore, FingerprintOf(dupLast))
           /\ ~Has(LastN(logBefore, RECENT_RESPONSES), FingerprintOf(dupLast)))
            => ~dupLast.returns

\* the oldest fingerprint of a full bucket, pushed out by a new text and
\* then submitted again: not a duplicate, and the second oldest goes
C12_Witness ==
  /\ dupCalls > 1
  /\ dupLast.ip = "ip1" /\ dupLast.questionId = "q1"
  /\ dupLast.response = Filler(1) /\ ~dupLast.returns
  /\ Len(insertions["ip1"]["q1"]) = RECENT_RESPONSES + 2
  /\ Len(recentResponsesByIP["ip1"]["q1"]) = RECENT_RESPONSES
  /\ recentResponsesByIP["ip1"]["q1"][1] = Filler(3)
  /\ recentResponsesByIP["ip1"]["q1"][RECENT_RESPONSES] = Filler(1)

(***************************************************************************)
(* Properties of the spam classifier.                                      *)
(***************************************************************************)
\* some character occurs at least 10 times consecutively
TenInARow(text) ==
  \E i \in DOMAIN text :
    /\ i + 9 <= Len(text)
    /\ \A j \in 1..9 : text[i + j] = text[i]

\* the lower-cased words of a text: what white space separates
WordsOf(text) == SelectSeq(Split(ToLowerCase(text)), LAMBDA w : w # <<>>)

\* some word occurs more than 5 times and the text has more than 10 words
RepeatedWord(text) ==
  /\ Len(WordsOf(text)) > 10
  /\ \E i \in DOMAIN WordsOf(text) : WordFreq(WordsOf(text), WordsOf(text)[i]) > 5

\* C13: checkForSpam reports spam if and only if (a) some character occurs
\* at least 10 times consecutively, (b) the URL-scheme prefix occurs more
\* than 3 times, or (c) some lower-cased word occurs more than 5 times in a
\* text of more than 10 words; the reason is that of the first that holds.
C13_SpamIff ==
  spamCheck # NoSpamCheck =>
    /\ spamCheck.isSpam <=>
         (TenInARow(typed) \/ UrlCount(typed) > 3 \/ RepeatedWord(typed))
    /\ spamCheck.reason =
         (IF TenInARow(typed) THEN "Too many repeated characters"
          ELSE IF UrlCount(typed) > 3 THEN "Too many URLs"
          ELSE IF RepeatedWord(typed) THEN "Excessive word repetition"
          ELSE "")

(***************************************************************************)
(* Properties of the write operations.                                     *)
(***************************************************************************)
\* C14: trackApiUsage runs for a summary request only once generateSummary
\* has returned a summary, and the amount it is given is the sum of the
\* tokens of every completion made for the request, those of completions
\* that were discarded and retried included.
C14_TokensActuallyConsumed ==
  /\ \A p \in Procs : Tracking(p) =>
       /\ client.op = "request-summary" /\ client.stage = "track"
       /\ ucall[p].tokensUsed = client.consumed
  /\ client.stage = "track" => client.recorded = client.consumed
  /\ result.request.recorded # NoTokens =>
       result.request.recorded = result.request.consumed

\* C15: a store call that fails inside trackApiUsage is swallowed: the call
\* does not raise, and the summary request that made it returns its summary
\* with status 200.
C15_TrackingSwallowed ==
  /\ \A p \in Procs : ~uthrew[p]
  /\ result.request.trackFailed => (result.status = 200 /\ result.error = "")

\* a summary returned although total_requests could not be incremented
C15_Witness ==
  /\ result.request.op = "request-summary"
  /\ result.request.trackFailed
  /\ result.status = 200
  /\ usage[0].total_tokens = 50
  /\ usage[0].total_requests = 0

\* C16: once a trackApiUsage call is over, whether or not a store call of it
\* failed, every usage key it has incremented carries the 90-day expiry.
C16_IncrementedKeysExpire ==
  (\A p \in Procs : ~Tracking(p)) =>
    \A d \in Days :
      /\ (usage[d].total_tokens > 0 \/ usage[d].total_requests > 0)
           => usageTtl[UsageKey(d)] # NoTtl
      /\ (\E q \in UsageQuestions : usageQuestions[d][q] > 0)
           => usageTtl[UsageQuestionsKey(d)] # NoTtl

\* the text of the submission in progress is spam, is in its bucket
SubmittedSpam == checkForSpam(client.text).isSpam
SubmittedSeen ==
  Has(recentResponsesByIP[client.ip]["q1"], Trim(ToLowerCase(client.text)))

\* C17: a response that checkForSpam classifies as spam is rejected with the
\* duplicate filter's memory untouched and nothing inserted; a response that
\* is not spam and is in the filter's memory is rejected with nothing
\* inserted; and a response is inserted only when it is not spam and the
\* duplicate filter has taken it in.
C17_ChecksBeforeInsert ==
  [][/\ (client.stage = "checks" /\ SubmittedSpam) =>
          /\ recentResponsesByIP' = recentResponsesByIP
          /\ effects' = effects
          /\ client' = NoRequest
          /\ result'.error = checkForSpam(client.text).reason
     /\ (client.stage = "checks" /\ ~SubmittedSpam /\ SubmittedSeen) =>
          /\ recentResponsesByIP' = recentResponsesByIP
          /\ effects' = effects
          /\ client' = NoRequest
          /\ result'.error = "You have already submitted this response"
     /\ (client.op = "submit-response" /\ effects' # effects) =>
          /\ client.stage = "insert"
          /\ ~SubmittedSpam
          /\ SubmittedSeen
          /\ dupLast.response = client.text /\ ~dupLast.returns]_vars

\* ten a rejected as spam, the filter's memory of that ip still empty
C17_Witness ==
  /\ result.request.op = "submit-response"
  /\ result.request.text = Repeat(<<"a">>, 10)
  /\ result.error = "Too many repeated characters"
  /\ recentResponsesByIP[result.request.ip]["q1"] = <<>>
  /\ effects = {}

\* C18: a summary request that rateLimitMiddleware denies gets the 429
\* response with the limiter's message and reset time; it does not reach
\* the route, so no completion is made and no usage recorded for it.
C18_DenialShortCircuits ==
  /\ client.stage \in {"route", "generate", "track"} => client.limiter # 429
  /\ (~Handling /\ result.request.op = "request-summary" /\ last.status = 429) =>
       /\ result.status = 429
       /\ result.error = SummarizeConfig.message
       /\ result.reset = last.current[1].lastReset + SummarizeConfig.windowMs
       /\ result.request.completions = 0
       /\ result.request.consumed = 0
       /\ result.request.recorded = NoTokens

\* the third summary request of the minute, turned away
C18_Witness ==
  /\ ~Handling /\ result.request.op = "request-summary"
  /\ last.status = 429 /\ result.status = 429
  /\ store[QuestionsKey("ip1")].val.windowCount = SUMMARY_MAX
  /\ effects # {}

(***************************************************************************)
(* Properties of the limits enforced.                                      *)
(***************************************************************************)
\* the windowCount the last single-key check compared: 0 for an absent key
\* and for a key whose window is over, the stored one otherwise
WindowCountCompared ==
  IF last.read[1] = Null THEN 0
  ELSE IF last.req.now - last.read[1].lastReset > last.req.windowMs THEN 0
  ELSE last.read[1].windowCount

Tiers ==
  <<[reached |-> Rolled(1).dailyCount >= IP_PER_DAY,
     error |-> "Daily response limit reached"],
    [reached |-> Rolled(1).hourlyCount >= IP_PER_HOUR,
     error |-> "Hourly response limit reached"],
    [reached |-> Rolled(1).windowCount >= IP_PER_MINUTE,
     error |-> "Too many responses, please wait a minute"],
    [reached |-> Rolled(2).dailyCount >= Q_PER_DAY,
     error |-> "This question has reached its daily response limit"],
    [reached |-> Rolled(2).hourlyCount >= Q_PER_HOUR,
     error |-> "This question has reached its hourly response limit"],
    [reached |-> Rolled(2).windowCount >= Q_PER_MINUTE,
     error |-> "Too many responses to this question, please wait a minute"]>>

\* C20: a denied response check reports the reason of the first limit
\* reached in the order day, hour, window of the identity key and then day,
\* hour, window of the question key.
C20_FirstTierReason ==
  (Healthy /\ last.req.mode = "dual" /\ ~last.allowed) =>
    /\ \E i \in DOMAIN Tiers : Tiers[i].reached
    /\ last.error = Tiers[MinOf({i \in DOMAIN Tiers : Tiers[i].reached})].error

\* an identity over its daily and its per-minute limit: the day is reported
C20_Witness ==
  /\ Healthy /\ last.req.mode = "dual" /\ ~last.allowed
  /\ Tiers[1].reached /\ Tiers[3].reached
  /\ last.error = "Daily response limit reached"

\* the admissions of last's identity in the 60 minutes up to last's check
AdmittedInHourBefore ==
  Len(SelectSeq(admittedAt,
                LAMBDA a : a[1] = last.req.clientIp
                           /\ a[2] >= last.req.now - HourMs))

\* C21: a response check is denied with the hourly reason of the identity
\* only if at least PER_HOUR of the identity's checks were admitted during
\* the 60 minutes before it.
C21_HourlyDenialCountsTheHour ==
  (last.req.mode = "dual" /\ last.error = "Hourly response limit reached") =>
    AdmittedInHourBefore >= IP_PER_HOUR

\* C22: after a single-key denial, which reports the reset time
\* lastReset + windowMs, the next check on the same key, made at the
\* reported time or later with a healthy store, is admitted.
C22_RetryAtResetAdmitted ==
  [][(/\ last.req.mode = "single" /\ last.status = 429
      /\ last' # last
      /\ last'.req.mode = "single"
      /\ last'.req.clientIp = last.req.clientIp
      /\ ~last'.failed
      /\ last'.req.now >= last.reset)
     => last'.allowed]_vars

\* C23: a submission is rejected as a duplicate only if the same normalized
\* text of the same identity for the same question was persisted before;
\* after a failed insert the same text can be submitted again.
C23_DuplicateMeansPersisted ==
  result.error = "You have already submitted this response" =>
    \E e \in effects :
      /\ e.op = "submit-response"
      /\ e.ip = result.request.ip
      /\ Normalized(e.text) = Normalized(result.request.text)

\* C24: when a response check has returned, its attempt has been counted on
\* both of its keys or on neither, also when a store write fails.
C24_BothKeysOrNeither ==
  last.req.mode = "dual" =>
    \/ last.wrote = {}
    \/ last.wrote = {IpKey(last.req.clientIp), QuestionKey(last.req.questionId)}

\* the sum of the counts of a hash over the fields S
RECURSIVE SumOver(_, _)
SumOver(hash, S) ==
  IF S = {} THEN 0
  ELSE LET f == CHOOSE x \in S : TRUE
       IN hash[f] + SumOver(hash, S \ {f})

\* C25: while no trackApiUsage call is in progress, a day's total_requests
\* equals the sum of that day's per-question request counts, also when
\* store calls fail.
C25_RequestsAddUp ==
  (\A p \in Procs : ~Tracking(p)) =>
    \A d \in Days :
      usage[d].total_requests = SumOver(usageQuestions[d], UsageQuestions)

\* the keys of checkResponseRateLimit that hold a record
ResponseKeysStored ==
  {k \in IpKeys \cup QuestionKeys : store[k].val # Null}

\* C26: every record that response checks leave in the store, under the
\* identity key and under the question key, has
\* 0 <= windowCount <= hourlyCount <= dailyCount.
C26_CountsOrdered ==
  \A k \in ResponseKeysStored :
    /\ 0 <= store[k].val.windowCount
    /\ store[k].val.windowCount <= store[k].val.hourlyCount
    /\ store[k].val.hourlyCount <= store[k].val.dailyCount

\* a record written after an hour rollover and a later window rollover: the
\* three counts differ
C26_Witness ==
  /\ NoneInFlight /\ last.req.mode = "dual" /\ last.allowed
  /\ \A k \in KeysOf(last.req) :
       /\ k \in last.wrote
       /\ 0 < store[k].val.windowCount
       /\ store[k].val.windowCount < store[k].val.hourlyCount
       /\ store[k].val.hourlyCount < store[k].val.dailyCount

\* the reasons of the identity-scoped tiers
IpReasons ==
  {"Daily response limit reached", "Hourly response limit reached",
   "Too many responses, please wait a minute"}

\* the admissions of the log that are the identity's
AdmissionsOf(clientIp) == SelectSeq(admittedAt, LAMBDA a : a[1] = clientIp)

\* t is at least 24 hours after the identity's last admitted response check:
\* after the last write of its key and after the last admission logged
DayAfterLastAdmission(clientIp, t) ==
  LET key == IpKey(clientIp)
      mine == AdmissionsOf(clientIp)
  IN /\ store[key].val # Null \/ mine # <<>>
     /\ store[key].val # Null => t - store[key].setAt >= DayMs
     /\ mine # <<>> => t - mine[Len(mine)][2] >= DayMs

\* C27: a response check made at least 24 hours after the identity's last
\* admitted one, or one that still finds the identity's record with a
\* lastReset 24 hours old, is not denied by the identity's per-minute,
\* hourly or daily tier.
C27_NoLockout ==
  [][\A p \in Procs :
       (req[p].mode = "dual" /\ InFlight(p) /\ pc'[p] = "idle"
          /\ \/ DayAfterLastAdmission(req[p].clientIp, req[p].now)
             \/ /\ ~last'.failed
                /\ last'.read[1] # Null
                /\ req[p].now - last'.read[1].lastReset >= DayMs)
         => last'.error \notin IpReasons]_vars

\* an identity that used up its day 24 hours ago is turned away by the
\* question's limit and not by its own: its record has expired
C27_Witness ==
  /\ NoneInFlight /\ Healthy /\ last.req.mode = "dual" /\ ~last.allowed
  /\ last.error = "This question has reached its daily response limit"
  /\ store[IpKey(last.req.clientIp)].val.dailyCount >= IP_PER_DAY
  /\ last.req.now - store[IpKey(last.req.clientIp)].setAt >= DayMs
  /\ last.read[1] = Null

\* the summary requests: the one in progress and the one that ended last
SummaryRequests ==
  {r \in {client, result.request} : r.op = "request-summary"}

\* C28: generateSummary makes at most MAX_RETRIES + 1 = 4 calls per request;
\* it retries only after a failed attempt, waiting 1000, 2000 and 4000 ms
\* before the retries; the summary it returns carries the number of failed
\* attempts as metrics.retryCount; after the fourth failure POST answers
\* with an error status and records no usage; and it always terminates.
C28_RetriesBounded ==
  /\ [](\A r \in SummaryRequests :
          /\ r.calls <= 4
          /\ r.retryCount <= 3
          /\ r.delays = SubSeq(<<1000, 2000, 4000>>, 1, r.retryCount)
          /\ (r = client /\ r.stage = "generate") => r.calls = r.retryCount
          /\ r.metricsRetryCount # NoMetrics =>
               /\ r.metricsRetryCount = r.calls - 1
               /\ r.metricsRetryCount = r.retryCount
          /\ r.recorded # NoTokens => r.metricsRetryCount # NoMetrics)
  /\ [](result.request.op = "request-summary"
          /\ result.request.metricsRetryCount = NoMetrics
          /\ result.request.calls > 0
        => /\ result.request.calls = 4
           /\ result.status >= 400
           /\ result.request.recorded = NoTokens)
  /\ (client.stage = "generate" ~> client.stage # "generate")

\* a summary returned by the fourth call, after three failed attempts
C28_Witness ==
  /\ result.request.op = "request-summary" /\ result.status = 200
  /\ result.request.calls = 4
  /\ result.request.metricsRetryCount = 3
  /\ result.request.delays = <<1000, 2000, 4000>>

\* what an admitted check leaves under a key that held {0, 0, 0, now}
FirstAdmission ==
  IF last.req.mode = "single"
  THEN RateLimitInfo(0, 0, 1, last.req.now)
  ELSE RateLimitInfo(1, 1, 1, last.req.now)

\* the reasons of the tiers of the last check's i-th key
ReasonsOf(i) ==
  IF i = 1
  THEN {"Daily response limit reached", "Hourly response limit reached",
        "Too many responses, please wait a minute"}
  ELSE {"This question has reached its daily response limit",
        "This question has reached its hourly response limit",
        "Too many responses to this question, please wait a minute"}

OwnKeys(r) ==
  IF r.mode = "single" THEN {"rate_limit:questions:" \o r.clientIp}
  ELSE IF r.mode = "dual"
  THEN {"rate_limit:responses:ip:" \o r.clientIp,
        "rate_limit:responses:question:" \o r.questionId}
  ELSE {}

\* the record under key k has reached a limit of the key's scope, for a
\* single-key check with maximum max
AtLimit(k, max) ==
  /\ store[k].val # Null
  /\ IF k \in SingleKeys THEN store[k].val.windowCount >= max
     ELSE IF k \in IpKeys THEN ~UnderAll(store[k].val, RESPONSE_LIMITS.PER_IP)
     ELSE ~UnderAll(store[k].val, RESPONSE_LIMITS.PER_QUESTION)

\* C30: each (scope, identity) has its own key; a step of a check writes
\* only the keys of that check's scope, identity and question, so a
\* single-key check leaves the dual-key state alone and conversely; and a
\* check is denied only when one of its own keys has reached a limit, never
\* because another identity or question has.
C30_OwnKeysOnly ==
  /\ [](/\ SingleKeys \cap (IpKeys \cup QuestionKeys) = {}
        /\ IpKeys \cap QuestionKeys = {}
        /\ Cardinality(SingleKeys) = Cardinality(AllClientIps)
        /\ Cardinality(IpKeys) = Cardinality(AllClientIps)
        /\ Cardinality(QuestionKeys) = Cardinality(AllQuestionIds))
  /\ [][\A k \in Keys :
          store'[k] # store[k] =>
            \E p \in Procs :
              /\ InFlight(p) /\ k \in OwnKeys(req[p])
              /\ req[p].mode = "single" <=> k \in SingleKeys]_vars
  /\ []((NoneInFlight /\ Healthy /\ ~last.allowed) =>
          \E k \in OwnKeys(last.req) : AtLimit(k, last.req.max))

\* the first identity and the first question have used up their limits; a
\* response of the second identity to the second question is admitted
C30_Witness ==
  /\ NoneInFlight /\ Healthy /\ last.allowed
  /\ last.req.mode = "dual"
  /\ last.req.clientIp = "ip2" /\ last.req.questionId = "q2"
  /\ AtLimit(IpKey("ip1"), 0) /\ AtLimit(QuestionKey("q1"), 0)
  /\ AtLimit(QuestionsKey("ip1"), SUMMARY_MAX)
  /\ store[IpKey("ip2")].val = RateLimitInfo(1, 1, 1, 0)

====
